---- MODULE Spec2Model ----
(***************************************************************************)
(* Comfort state engine of ha-comfort-advisor.                             *)
(*                                                                         *)
(* The repository holds two revisions of the engine, which never run       *)
(* together:                                                               *)
(*   - ComfortCalculator (comfort.py): update_input / refresh_state with   *)
(*     a dirty flag (_have_changes);                                       *)
(*   - ComfortAdvisorDevice (device.py): sensor / weather listeners,       *)
(*     _calculate_state and the entity notification list.                  *)
(* A behaviour of Spec drives one of the two objects (variable instance).  *)
(*                                                                         *)
(* Numbers: sensor temperatures are whole degrees of the configured unit   *)
(* (Fahrenheit), humidities whole percent.  Derived temperatures (dew      *)
(* point, simmer index, thresholds) are fixed point, 10^-5 degree.         *)
(* Timestamps are whole hours.  Python None is the empty tuple and a       *)
(* present value v is <<v>>.                                               *)
(***************************************************************************)
EXTENDS Integers, Sequences, FiniteSets, TLC

VARIABLES
    instance,       \* which object this behaviour drives
    config,         \* thresholds (CONF_COMFORT section), fixed point
    now,            \* utcnow(), hours
    \* ---- ComfortCalculator (comfort.py) ----
    have_changes,   \* self._have_changes
    input,          \* self._input
    calculated,     \* self._calculated
    \* ---- ComfortAdvisorDevice (device.py) ----
    rt_data,        \* self._realtime_service.data
    polling,        \* self._polling
    dev_inputs,     \* self._inputs
    dev_calculated, \* self._calculated
    dev_attrs,      \* self._extra_state_attributes
    entities,       \* self._entities
    tasks,          \* _async_update tasks created and not yet run
    subs,           \* per entity: add_entity calls whose remover has not run
    invoked,        \* per entity: async_schedule_update_ha_state calls of the last step
    \* ---- observation of the last call ----
    call,           \* the last operation and its arguments
    ret,            \* what it returned: "None", "True" or "False"; the exception it raised
    produced,       \* states refresh_state produced since the last update_input
    altered,        \* update_input changed a stored input since the last produced state
    \* ---- Home Assistant (__init__.py, config_flow.py) ----
    hass_data,      \* the keys of hass.data[DOMAIN]
    config_entries, \* the config entries of the domain, in creation order
    flow,           \* self._config of the config flow in progress: its sensors
    handler,        \* the flow handler the flow manager holds, and its current step
    flow_result,    \* the FlowResult of the last call of the flow manager
    \* ---- ComfortAdvisorDevice (sensor.py) ----
    indoor,         \* self._indoor_temperature and self._indoor_humidity
    compute_states, \* self._compute_states: needs_update and the lock's state
    sensor_values,  \* the attribute _<sensor_type> of each sensor type
    reads,          \* per entity update in progress: its stack of wrapped calls
    evaluations,    \* per sensor type: formula evaluations since the last input change
    should_poll,    \* self._should_poll
    sensor_entities, \* self.sensors: the sensor types of the entities added
    pending,        \* the entities with an update scheduled that has not started
    \* ---- weather provider (provider.py) ----
    retry,          \* the call of an async_retry wrapper in progress, or the last one
    providers,      \* hass.data[DOMAIN]["providers"]: hashable key -> provider object
    creating,       \* per call of async_create_weather_provider: where it is
    objects,        \* the provider objects constructed so far
    provided,       \* every <<hashable key, provider object>> a call has returned
    service,        \* a coordinator of the provider: data, listeners, refreshes
    notified,       \* the listeners called in the last step
    served          \* the listeners called with data since they were registered

calcVars == <<have_changes, input, calculated>>
devVars == <<polling, dev_inputs, dev_calculated, dev_attrs, entities, tasks,
             subs, invoked>>
obsVars == <<call, ret, produced, altered>>
flowVars == <<handler, flow_result>>
hassVars == <<hass_data, config_entries, flow, flowVars>>
sensorVars == <<indoor, compute_states, sensor_values, reads, evaluations, should_poll,
               sensor_entities, pending>>
cacheVars == <<providers, creating, objects, provided>>
listenVars == <<service, notified, served>>
providerVars == <<retry, cacheVars, listenVars>>
vars == <<instance, config, now, rt_data, calcVars, devVars, obsVars, hassVars,
          sensorVars, providerVars>>

None == <<>>
Some(v) == <<v>>
Val(o) == o[1]

\* a dict is the set of its <<key, value>> items
Keys(d) == {item[1] : item \in d}
Get(d, key) == (CHOOSE item \in d : item[1] = key)[2]
\* dict.update(u)
Updated(d, u) == {item \in d : item[1] \notin Keys(u)} \cup u

\* ComfortAdvisorConfigFlow.__init__: nothing configured, no schema built
NoHandler ==
    [cur_step |-> "", provider_name |-> None, weather_schema |-> None, config |-> {}]

FlowResult(type, step_id, reason, title, data) ==
    [type |-> type, step_id |-> step_id, reason |-> reason, title |-> title,
     data |-> data]
NoResult == FlowResult("", "", "", "", {})
async_show_form(step_id, errors) == FlowResult("form", step_id, errors, "", {})
async_abort(reason) == FlowResult("abort", "", reason, "", {})
async_create_entry(title, data) == FlowResult("create_entry", "", "", title, data)

\* ---------------------------------------------------------------- bounds
MaxNow == 1
MaxEntities == 2
MaxTasks == 1
MaxConfigEntries == 2

\* entity updates of the sensor device that run at once
MaxEntityUpdates == 2
MaxCreates == 2
MaxListeners == 2
MaxRefreshes == 2

\* ------------------------------------------------------ program constants
WindowHours == 24
DEFAULT_DEWPOINT_MAX == 60
DEFAULT_HUMIDITY_MAX == 95
DEFAULT_POLLEN_MAX == 2
DEFAULT_SIMMER_INDEX_MAX == 85
DEFAULT_SIMMER_INDEX_MIN == 70

DefaultConfig ==
    [dew_point_max    |-> DEFAULT_DEWPOINT_MAX * 100000,
     humidity_max     |-> DEFAULT_HUMIDITY_MAX,
     simmer_index_min |-> DEFAULT_SIMMER_INDEX_MIN * 100000,
     simmer_index_max |-> DEFAULT_SIMMER_INDEX_MAX * 100000,
     pollen_max       |-> DEFAULT_POLLEN_MAX]

\* ---- the sensor device (sensor.py): its state after construction
\* three of SENSOR_TYPES: a sensor whose formula can raise, one that awaits
\* it, and the simmer index
SensorTypes == {"dew_point", "frost_point", "simmer_index"}

\* the entity updates (tasks of SensorComfortAdvisor.async_update) that can
\* be in progress at once
EntityUpdates == 1 .. MaxEntityUpdates

NoIndoor == [temperature |-> None, humidity |-> None]

\* ComputeState(lock=Lock()) for every sensor type: needs_update is False
NoComputeStates ==
    [sensor_type \in SensorTypes |-> [needs_update |-> FALSE, locked |-> FALSE]]

NoEvaluations == [sensor_type \in SensorTypes |-> [returned |-> 0, raised |-> 0]]

\* ---- the weather provider (provider.py): no wrapper has been called
NoRetry == [pc |-> "idle", wrapped |-> "", retries |-> 0, attempts |-> 0, outcome |-> None]

\* a call of async_create_weather_provider that has not started
NoCreate == [pc |-> "idle", provider_config |-> None]

\* the calls of async_create_weather_provider that can be in progress at once
Creates == 1 .. MaxCreates

\* DataUpdateCoordinator(...) of Provider.__init__: no data, no listener
DataUpdateCoordinator(name) ==
    [name |-> name, data |-> None, listeners |-> {}, refreshing |-> 0,
     last_update_success |-> TRUE]

InitProviderVars ==
    /\ retry = NoRetry
    /\ providers = {}
    /\ creating = [create \in Creates |-> NoCreate]
    /\ objects = 0
    /\ provided = {}
    /\ service = DataUpdateCoordinator("realtime")
    /\ notified = {}
    /\ served = {}

\* --------------------------------------------------------------- formulas
\* dew_point_from_relative_humidity uses log and powers of ten; the model
\* holds its graph on the readings that occur, rounded to 2 decimals as
\* calc_dew_point rounds (values of the source formula, unit Fahrenheit).
DewPointTable ==
       <<65, 45>> :> 4318000 @@ <<65, 50>> :> 4594000 @@ <<65, 60>> :> 5081000 @@ <<65, 97>> :> 6415000 @@ <<65, 100>> :> 6503000
    @@ <<72, 45>> :> 4954000 @@ <<72, 50>> :> 5238000 @@ <<72, 60>> :> 5739000 @@ <<72, 97>> :> 7113000 @@ <<72, 100>> :> 7203000
    @@ <<75, 45>> :> 5226000 @@ <<75, 50>> :> 5514000 @@ <<75, 60>> :> 6021000 @@ <<75, 97>> :> 7412000 @@ <<75, 100>> :> 7503000
    @@ <<77, 45>> :> 5407000 @@ <<77, 50>> :> 5698000 @@ <<77, 60>> :> 6209000 @@ <<77, 97>> :> 7611000 @@ <<77, 100>> :> 7703000
    @@ <<86, 45>> :> 6222000 @@ <<86, 50>> :> 6523000 @@ <<86, 60>> :> 7053000 @@ <<86, 97>> :> 8507000 @@ <<86, 100>> :> 8602000

calc_dew_point(temp, rh) == DewPointTable[<<temp, rh>>]

\* vp = 10 ** (SUM - 3) * rh is 0 for rh = 0 and math.log(vp / 0.61078)
\* raises ValueError (math domain error)
calc_dew_point_raises(temp, rh) == rh = 0

\* 1.98 * (tf - (0.55 - 0.0055 * rh) * (tf - 58)) - 56.83, exact in 10^-5
summer_simmer_index(tf, rh) ==
    198000 * tf - 1089 * (100 - rh) * (tf - 58) - 5683000

\* the configured unit is Fahrenheit: both conversions are the identity,
\* and the result is not rounded
calc_simmer_index(temp, rh) == summer_simmer_index(temp, rh)

\* moist_air_enthalpy_from_relative_humidity at 101325 Pa (exp and log):
\* its graph on the readings that occur, 10^-5 kJ/kg
EnthalpyTable ==
       <<65, 45>> :> 3334362 @@ <<65, 50>> :> 3501661 @@ <<65, 60>> :> 3837316 @@ <<65, 97>> :> 5091635
    @@ <<72, 45>> :> 4140793 @@ <<72, 50>> :> 4355324 @@ <<72, 60>> :> 4786116 @@ <<72, 97>> :> 6400390
    @@ <<75, 45>> :> 4515883 @@ <<75, 50>> :> 4754109 @@ <<75, 60>> :> 5232690 @@ <<75, 97>> :> 7028506
    @@ <<77, 45>> :> 4776883 @@ <<77, 50>> :> 5032196 @@ <<77, 60>> :> 5545264 @@ <<77, 97>> :> 7472394
    @@ <<86, 45>> :> 6074297 @@ <<86, 50>> :> 6421153 @@ <<86, 60>> :> 7119338 @@ <<86, 97>> :> 9755657

calc_moist_air_enthalpy(temp, rh) == EnthalpyTable[<<temp, rh>>]

\* calc_dew_point with the unit Celsius: the same graph, both conversions
\* being the identity, rounded to 2 decimals
DewPointTableCelsius ==
       <<20, 50>> :> 928000 @@ <<20, 100>> :> 2002000
    @@ <<25, 50>> :> 1388000 @@ <<25, 100>> :> 2502000
    @@ <<30, 50>> :> 1846000 @@ <<30, 100>> :> 3001000

calc_dew_point_in(temp, rh, unit) ==
    IF unit = "C" THEN DewPointTableCelsius[<<temp, rh>>]
    ELSE calc_dew_point(temp, rh)

\* heat_index_from_relative_humidity (square root), as calc_heat_index
\* returns it: rounded to 2 decimals
HeatIndexTable ==
       <<65, 45>> :> 6332000 @@ <<65, 50>> :> 6355000 @@ <<65, 60>> :> 6402000 @@ <<65, 97>> :> 6576000
    @@ <<72, 45>> :> 7102000 @@ <<72, 50>> :> 7125000 @@ <<72, 60>> :> 7172000 @@ <<72, 97>> :> 7346000
    @@ <<75, 45>> :> 7431000 @@ <<75, 50>> :> 7455000 @@ <<75, 60>> :> 7502000 @@ <<75, 97>> :> 7676000
    @@ <<77, 45>> :> 7652000 @@ <<77, 50>> :> 7675000 @@ <<77, 60>> :> 7722000 @@ <<77, 97>> :> 7896000
    @@ <<86, 45>> :> 8657000 @@ <<86, 50>> :> 8789000 @@ <<86, 60>> :> 9110000 @@ <<86, 97>> :> 10983000

calc_heat_index(temp, rh) == HeatIndexTable[<<temp, rh>>]

\* absolute_humidity_from_relative_humidity (exp), as calc_absolute_humidity
\* returns it: rounded to 2 decimals
AbsoluteHumidityTable ==
       <<65, 45>> :> 706000 @@ <<65, 50>> :> 784000 @@ <<65, 60>> :> 941000 @@ <<65, 97>> :> 1522000
    @@ <<72, 45>> :> 886000 @@ <<72, 50>> :> 984000 @@ <<72, 60>> :> 1181000 @@ <<72, 97>> :> 1910000
    @@ <<75, 45>> :> 975000 @@ <<75, 50>> :> 1083000 @@ <<75, 60>> :> 1299000 @@ <<75, 97>> :> 2101000
    @@ <<77, 45>> :> 1038000 @@ <<77, 50>> :> 1153000 @@ <<77, 60>> :> 1384000 @@ <<77, 97>> :> 2237000
    @@ <<86, 45>> :> 1368000 @@ <<86, 50>> :> 1520000 @@ <<86, 60>> :> 1824000 @@ <<86, 97>> :> 2949000

calc_absolute_humidity(temp, rh) == AbsoluteHumidityTable[<<temp, rh>>]

\* frost_point of the dew point (log), as calc_frost_point returns it: the
\* converted value, not rounded
FrostPointTable ==
       <<65, 45>> :> 3879776 @@ <<65, 50>> :> 4156326 @@ <<65, 60>> :> 4643063 @@ <<65, 97>> :> 5977454
    @@ <<72, 45>> :> 4410218 @@ <<72, 50>> :> 4694726 @@ <<72, 60>> :> 5195592 @@ <<72, 97>> :> 6569517
    @@ <<75, 45>> :> 4635839 @@ <<75, 50>> :> 4923789 @@ <<75, 60>> :> 5430766 @@ <<75, 97>> :> 6821800
    @@ <<77, 45>> :> 4785679 @@ <<77, 50>> :> 5075933 @@ <<77, 60>> :> 5587002 @@ <<77, 97>> :> 6989497
    @@ <<86, 45>> :> 5454227 @@ <<86, 50>> :> 5754948 @@ <<86, 60>> :> 6284613 @@ <<86, 97>> :> 7739224

calc_frost_point(temp, rh) == FrostPointTable[<<temp, rh>>]

\* ------------------------------------------------------ ComfortCalculator
InputKeys == {"forecast", "indoor_temperature", "indoor_humidity",
              "outdoor_temperature", "outdoor_humidity"}

\* faulty variant: the humidity bound is exclusive
is_comfortable_StrictHumidity(humidity, dew_point, simmer_index, pollen) ==
    /\ config.simmer_index_min <= simmer_index
    /\ simmer_index <= config.simmer_index_max
    /\ dew_point <= config.dew_point_max
    /\ humidity < config.humidity_max
    /\ pollen <= config.pollen_max

is_comfortable(humidity, dew_point, simmer_index, pollen) ==
    /\ config.simmer_index_min <= simmer_index
    /\ simmer_index <= config.simmer_index_max
    /\ dew_point <= config.dew_point_max
    /\ humidity <= config.humidity_max
    /\ pollen <= config.pollen_max

\* a Forecast dict of the weather entity; an absent key is None
Entry(dt, temp, rh) ==
    [datetime |-> dt, temperature |-> Some(temp), humidity |-> Some(rh),
     dew_point |-> None]

\* WindowHours hourly entries from hour 0 on: odd ones too hot, even ones fine
AlternatingForecast ==
    [i \in 1..WindowHours |-> Entry(i - 1, IF i % 2 = 1 THEN 86 ELSE 72, 50)]

\* entries before, at both ends of, inside and beyond the window
ShortForecast ==
    <<Entry(-1, 72, 50), Entry(0, 86, 50), Entry(1, 75, 60), Entry(2, 65, 50),
      Entry(3, 72, 50), Entry(25, 86, 50), Entry(30, 86, 50)>>

PastForecast == <<Entry(-2, 72, 50), Entry(-1, 86, 50)>>

\* an entry without the humidity key / without the temperature key
NoHumidity(dt, temp) == [Entry(dt, temp, 50) EXCEPT !.humidity = None]
NoTemperature(dt, rh) == [Entry(dt, 72, rh) EXCEPT !.temperature = None]

\* a malformed entry between valid ones of the window
MalformedForecast ==
    <<Entry(1, 72, 50), NoHumidity(2, 72), Entry(3, 86, 50), Entry(4, 65, 50),
      Entry(5, 72, 50)>>

\* a malformed entry first
MalformedFirstForecast == <<NoTemperature(1, 50), Entry(2, 72, 50)>>

\* a completely dry hour, as a provider reports it
DryForecast == <<Entry(1, 72, 50), Entry(2, 72, 0)>>

\* an entry that brings the dew point the provider measured
WithDewPoint(dt, temp, rh, dew_point) ==
    [Entry(dt, temp, rh) EXCEPT !.dew_point = Some(dew_point)]

\* 75 F at 60 %: the provider reports a dew point of 59.90 F where
\* calc_dew_point gives 60.21 F; the second entry brings none
ProviderDewPointForecast ==
    <<WithDewPoint(1, 75, 60, 5990000), Entry(2, 75, 60)>>

Forecasts == {<<>>, PastForecast, ShortForecast, AlternatingForecast}

InputValues(key) ==
    CASE key = "forecast"            -> Forecasts
      [] key = "indoor_temperature"  -> {77}
      [] key = "indoor_humidity"     -> {45}
      [] key = "outdoor_temperature" -> {72, 86}
      [] key = "outdoor_humidity"    -> {50, 97}

RECURSIVE scan_forecast(_, _, _, _)
scan_forecast(forecast, i, start_time, new_forecast) ==
    IF i > Len(forecast) THEN new_forecast
    ELSE LET entry == forecast[i]
             dt == entry.datetime
             end_time == start_time + WindowHours
         IN  IF dt < start_time
             THEN scan_forecast(forecast, i + 1, start_time, new_forecast)
             ELSE IF dt > end_time THEN new_forecast
             ELSE IF entry.temperature = None \/ entry.humidity = None
             THEN new_forecast
             ELSE LET temp == Val(entry.temperature)
                      humidity == Val(entry.humidity)
                      dew_point ==
                          IF entry.dew_point # None /\ Val(entry.dew_point) # 0
                          THEN Val(entry.dew_point)
                          ELSE calc_dew_point(temp, humidity)
                      ssi == calc_simmer_index(temp, humidity)
                  IN  scan_forecast(forecast, i + 1, start_time,
                          Append(new_forecast,
                              [datetime |-> dt,
                               temperature |-> temp,
                               dew_point |-> dew_point,
                               ssi |-> ssi,
                               enthalpy |-> calc_moist_air_enthalpy(temp, humidity),
                               comfortable |->
                                   is_comfortable(humidity, dew_point, ssi, 0)]))

make_comfort_forecast(forecast, start_time) ==
    scan_forecast(forecast, 1, start_time, <<>>)

\* the same scan: does it reach an entry whose dew point has to be
\* calculated and cannot be
RECURSIVE scan_raises(_, _, _)
scan_raises(forecast, i, start_time) ==
    IF i > Len(forecast) THEN FALSE
    ELSE LET entry == forecast[i]
             dt == entry.datetime
             end_time == start_time + WindowHours
         IN  IF dt < start_time THEN scan_raises(forecast, i + 1, start_time)
             ELSE IF dt > end_time THEN FALSE
             ELSE IF entry.temperature = None \/ entry.humidity = None THEN FALSE
             ELSE IF /\ ~(entry.dew_point # None /\ Val(entry.dew_point) # 0)
                     /\ calc_dew_point_raises(Val(entry.temperature),
                                              Val(entry.humidity))
             THEN TRUE
             ELSE scan_raises(forecast, i + 1, start_time)

make_comfort_forecast_raises(forecast, start_time) ==
    scan_raises(forecast, 1, start_time)

\* itertools.dropwhile(lambda x: x[comfortable] == flag, seq)
RECURSIVE dropwhile(_, _)
dropwhile(flag, seq) ==
    IF seq = <<>> THEN seq
    ELSE IF Head(seq).comfortable = flag THEN dropwhile(flag, Tail(seq))
    ELSE seq

RECURSIVE SeqSum(_)
SeqSum(s) == IF s = <<>> THEN 0 ELSE Head(s) + SeqSum(Tail(s))

SeqMin(s) == CHOOSE m \in {s[i] : i \in DOMAIN s} : \A i \in DOMAIN s : m <= s[i]
SeqMax(s) == CHOOSE m \in {s[i] : i \in DOMAIN s} : \A i \in DOMAIN s : m >= s[i]

\* the two transition times of refresh_state
first_change(forecast, comfortable_now) == dropwhile(comfortable_now, forecast)
\* faulty variant: the second search looks for the same flag as the first
second_change_SameFlag(forecast, comfortable_now) ==
    dropwhile(comfortable_now, first_change(forecast, comfortable_now))

second_change(forecast, comfortable_now) ==
    dropwhile(~comfortable_now, first_change(forecast, comfortable_now))

first_time(forecast, comfortable_now) ==
    IF first_change(forecast, comfortable_now) # <<>>
    THEN Some(first_change(forecast, comfortable_now)[1].datetime) ELSE None

second_time(forecast, comfortable_now) ==
    IF first_change(forecast, comfortable_now) # <<>>
       /\ second_change(forecast, comfortable_now) # <<>>
    THEN Some(second_change(forecast, comfortable_now)[1].datetime) ELSE None

NoCalculated ==
    [average_temperature |-> None, enthalpy |-> None, simmer_index |-> None,
     can_open_windows |-> None, open_windows_at |-> None,
     close_windows_at |-> None, low_simmer_index |-> None,
     high_simmer_index |-> None, low_enthalpy |-> None, high_enthalpy |-> None]

\* faulty variant: can_open_windows stays "on" once it was computed "on"
new_calculated_StickyOn(forecast, out_temp, out_humidity) ==
    LET out_dewp == calc_dew_point(out_temp, out_humidity)
        out_ssi == calc_simmer_index(out_temp, out_humidity)
        out_enthalpy == calc_moist_air_enthalpy(out_temp, out_humidity)
        temp_arr == [i \in DOMAIN forecast |-> forecast[i].temperature]
        ssi_arr == [i \in DOMAIN forecast |-> forecast[i].ssi]
        enthalpy_arr == [i \in DOMAIN forecast |-> forecast[i].enthalpy]
        comfortable_now ==
            \/ is_comfortable(out_humidity, out_dewp, out_ssi, 0)
            \/ calculated.can_open_windows = Some("on")
    IN  [average_temperature |-> Some((SeqSum(temp_arr) * 100000) \div Len(temp_arr)),
         enthalpy |-> Some(out_enthalpy),
         simmer_index |-> Some(out_ssi),
         can_open_windows |-> Some(IF comfortable_now THEN "on" ELSE "off"),
         low_simmer_index |-> Some(SeqMin(ssi_arr)),
         high_simmer_index |-> Some(SeqMax(ssi_arr)),
         low_enthalpy |-> Some(SeqMin(enthalpy_arr)),
         high_enthalpy |-> Some(SeqMax(enthalpy_arr)),
         open_windows_at |->
             IF comfortable_now THEN second_time(forecast, comfortable_now)
             ELSE first_time(forecast, comfortable_now),
         close_windows_at |->
             IF comfortable_now THEN first_time(forecast, comfortable_now)
             ELSE second_time(forecast, comfortable_now)]

\* faulty variant: the two transition times are published the other way round
new_calculated_Swapped(forecast, out_temp, out_humidity) ==
    LET out_dewp == calc_dew_point(out_temp, out_humidity)
        out_ssi == calc_simmer_index(out_temp, out_humidity)
        out_enthalpy == calc_moist_air_enthalpy(out_temp, out_humidity)
        temp_arr == [i \in DOMAIN forecast |-> forecast[i].temperature]
        ssi_arr == [i \in DOMAIN forecast |-> forecast[i].ssi]
        enthalpy_arr == [i \in DOMAIN forecast |-> forecast[i].enthalpy]
        comfortable_now == is_comfortable(out_humidity, out_dewp, out_ssi, 0)
    IN  [average_temperature |-> Some((SeqSum(temp_arr) * 100000) \div Len(temp_arr)),
         enthalpy |-> Some(out_enthalpy),
         simmer_index |-> Some(out_ssi),
         can_open_windows |-> Some(IF comfortable_now THEN "on" ELSE "off"),
         low_simmer_index |-> Some(SeqMin(ssi_arr)),
         high_simmer_index |-> Some(SeqMax(ssi_arr)),
         low_enthalpy |-> Some(SeqMin(enthalpy_arr)),
         high_enthalpy |-> Some(SeqMax(enthalpy_arr)),
         open_windows_at |->
             IF comfortable_now THEN first_time(forecast, comfortable_now)
             ELSE second_time(forecast, comfortable_now),
         close_windows_at |->
             IF comfortable_now THEN second_time(forecast, comfortable_now)
             ELSE first_time(forecast, comfortable_now)]

\* the assignments of refresh_state to self._calculated
new_calculated(forecast, out_temp, out_humidity) ==
    LET out_dewp == calc_dew_point(out_temp, out_humidity)
        out_ssi == calc_simmer_index(out_temp, out_humidity)
        out_enthalpy == calc_moist_air_enthalpy(out_temp, out_humidity)
        temp_arr == [i \in DOMAIN forecast |-> forecast[i].temperature]
        ssi_arr == [i \in DOMAIN forecast |-> forecast[i].ssi]
        enthalpy_arr == [i \in DOMAIN forecast |-> forecast[i].enthalpy]
        comfortable_now == is_comfortable(out_humidity, out_dewp, out_ssi, 0)
    IN  [average_temperature |-> Some((SeqSum(temp_arr) * 100000) \div Len(temp_arr)),
         enthalpy |-> Some(out_enthalpy),
         simmer_index |-> Some(out_ssi),
         can_open_windows |-> Some(IF comfortable_now THEN "on" ELSE "off"),
         low_simmer_index |-> Some(SeqMin(ssi_arr)),
         high_simmer_index |-> Some(SeqMax(ssi_arr)),
         low_enthalpy |-> Some(SeqMin(enthalpy_arr)),
         high_enthalpy |-> Some(SeqMax(enthalpy_arr)),
         open_windows_at |->
             IF comfortable_now THEN second_time(forecast, comfortable_now)
             ELSE first_time(forecast, comfortable_now),
         close_windows_at |->
             IF comfortable_now THEN first_time(forecast, comfortable_now)
             ELSE second_time(forecast, comfortable_now)]

\* faulty variant: the indoor inputs are not looked at
any_input_none_OutdoorOnly ==
    \E k \in {"forecast", "outdoor_temperature", "outdoor_humidity"} : input[k] = None

\* any(value is None for value in self._input.values())
any_input_none == \E k \in InputKeys : input[k] = None

Call(op, key, value) == [op |-> op, key |-> key, value |-> value]

\* faulty variant: stores and marks dirty without comparing with the stored value
update_input_NoCompare(key, value) ==
    /\ instance = "ComfortCalculator"
    /\ IF value # None
       THEN /\ input' = [input EXCEPT ![key] = value]
            /\ have_changes' = TRUE
            /\ altered' = TRUE
       ELSE UNCHANGED <<input, have_changes, altered>>
    /\ call' = Call("update_input", key, value)
    /\ ret' = "None"
    /\ produced' = 0
    /\ UNCHANGED <<hassVars, sensorVars, providerVars, instance, config, now, rt_data, calculated, devVars>>

update_input(key, value) ==
    /\ instance = "ComfortCalculator"
    /\ IF value # None /\ input[key] # value
       THEN /\ input' = [input EXCEPT ![key] = value]
            /\ have_changes' = TRUE
            /\ altered' = TRUE
       ELSE UNCHANGED <<input, have_changes, altered>>
    /\ call' = Call("update_input", key, value)
    /\ ret' = "None"
    /\ produced' = 0
    /\ UNCHANGED <<hassVars, sensorVars, providerVars, instance, config, now, rt_data, calculated, devVars>>

\* faulty variant: the dirty flag is not cleared
refresh_state_KeepsDirty ==
    /\ instance = "ComfortCalculator"
    /\ call' = Call("refresh_state", "", None)
    /\ IF ~have_changes
       THEN /\ ret' = "False"
            /\ UNCHANGED <<have_changes, calculated, produced, altered>>
       ELSE /\ have_changes' = have_changes
            /\ IF any_input_none
               THEN /\ ret' = "False"
                    /\ UNCHANGED <<calculated, produced, altered>>
               ELSE LET forecast ==
                            make_comfort_forecast(Val(input["forecast"]), now)
                        out_temp == Val(input["outdoor_temperature"])
                        out_humidity == Val(input["outdoor_humidity"])
                    IN  IF make_comfort_forecast_raises(Val(input["forecast"]), now)
                        THEN /\ ret' = "ValueError"
                             /\ UNCHANGED <<calculated, produced, altered>>
                        ELSE IF forecast = <<>>
                        THEN /\ ret' = "False"
                             /\ UNCHANGED <<calculated, produced, altered>>
                        ELSE IF calc_dew_point_raises(out_temp, out_humidity)
                        THEN /\ ret' = "ValueError"
                             /\ UNCHANGED <<calculated, produced, altered>>
                        ELSE /\ calculated' =
                                    new_calculated(forecast, out_temp, out_humidity)
                             /\ ret' = "True"
                             /\ produced' = IF produced < 2 THEN produced + 1 ELSE 2
                             /\ altered' = FALSE
    /\ UNCHANGED <<hassVars, sensorVars, providerVars, instance, config, now, rt_data, input, devVars>>

refresh_state ==
    /\ instance = "ComfortCalculator"
    /\ call' = Call("refresh_state", "", None)
    /\ IF ~have_changes
       THEN /\ ret' = "False"
            /\ UNCHANGED <<have_changes, calculated, produced, altered>>
       ELSE /\ have_changes' = FALSE
            /\ IF any_input_none
               THEN /\ ret' = "False"
                    /\ UNCHANGED <<calculated, produced, altered>>
               ELSE LET forecast ==
                            make_comfort_forecast(Val(input["forecast"]), now)
                        out_temp == Val(input["outdoor_temperature"])
                        out_humidity == Val(input["outdoor_humidity"])
                    IN  IF make_comfort_forecast_raises(Val(input["forecast"]), now)
                        THEN /\ ret' = "ValueError"
                             /\ UNCHANGED <<calculated, produced, altered>>
                        ELSE IF forecast = <<>>
                        THEN /\ ret' = "False"
                             /\ UNCHANGED <<calculated, produced, altered>>
                        ELSE IF calc_dew_point_raises(out_temp, out_humidity)
                        THEN /\ ret' = "ValueError"
                             /\ UNCHANGED <<calculated, produced, altered>>
                        ELSE /\ calculated' =
                                    new_calculated(forecast, out_temp, out_humidity)
                             /\ ret' = "True"
                             /\ produced' = IF produced < 2 THEN produced + 1 ELSE 2
                             /\ altered' = FALSE
    /\ UNCHANGED <<hassVars, sensorVars, providerVars, instance, config, now, rt_data, input, devVars>>

\* --------------------------------------------------- ComfortAdvisorDevice
DevKeys == {"indoor_temperature", "indoor_humidity", "outdoor_temperature",
            "outdoor_humidity", "realtime", "forecast"}

Entities == {"e1", "e2"}

temp_unit == "F"

\* WeatherData of the provider
WeatherData(dt, temp, rh, pollen) ==
    [date_time |-> dt, temp |-> temp, humidity |-> rh, pollen |-> pollen]

RealtimeSamples ==
    {WeatherData(0, 72, 50, None), WeatherData(0, 72, 50, Some(3))}

\* entries before, at both ends of, inside and beyond the window
DevShortForecast ==
    <<WeatherData(-1, 86, 50, None), WeatherData(0, 86, 50, None),
      WeatherData(1, 72, 50, Some(1)), WeatherData(2, 72, 50, Some(3)),
      WeatherData(25, 86, 50, None), WeatherData(30, 65, 50, None)>>

DevForecasts == {DevShortForecast}

\* self._entity_id_map: the sensor entity of each input
entity_id_map ==
       "sensor.indoor_temperature" :> <<"indoor_temperature">>
    @@ "sensor.indoor_humidity" :> <<"indoor_humidity">>
    @@ "sensor.outdoor_temperature" :> <<"outdoor_temperature">>
    @@ "sensor.outdoor_humidity" :> <<"outdoor_humidity">>

\* a State of a sensor entity: kind is "number" for a state float() parses
SensorState(kind, value, device_class, unit) ==
    [kind |-> kind, value |-> value, device_class |-> device_class, unit |-> unit]

\* a fine hour inside the window, then a hot one two hours past its end
DevLateForecast ==
    <<WeatherData(1, 72, 50, None), WeatherData(MaxNow + WindowHours + 2, 86, 50, None)>>

SensorStates(entity_id) ==
    CASE entity_id = "sensor.indoor_temperature" ->
            {SensorState("number", 77, "temperature", "F"),
             SensorState("number", 25, "temperature", "C"),
             SensorState("unknown", 0, "temperature", "F")}
      [] entity_id = "sensor.indoor_humidity" ->
            {SensorState("number", 45, "humidity", "%")}
      [] entity_id = "sensor.outdoor_temperature" ->
            {SensorState("number", 72, "temperature", "F"),
             SensorState("number", 30, "temperature", "C"),
             SensorState("unavailable", 0, "temperature", "F")}
      [] entity_id = "sensor.outdoor_humidity" ->
            {SensorState("number", 50, "humidity", "%")}

\* states of sensors as the config flow accepts them: it also takes a sensor
\* whose state carries the class as original_device_class only
UnitSensorStates(entity_id) ==
    CASE entity_id = "sensor.indoor_temperature" ->
            {SensorState("number", 77, "temperature", "F"),
             SensorState("number", 25, "temperature", "C"),
             SensorState("number", 25, "", "C")}
      [] entity_id = "sensor.indoor_humidity" ->
            {SensorState("number", 45, "humidity", "%")}
      [] entity_id = "sensor.outdoor_temperature" ->
            {SensorState("number", 72, "temperature", "F"),
             SensorState("number", 30, "temperature", "C")}
      [] entity_id = "sensor.outdoor_humidity" ->
            {SensorState("number", 50, "humidity", "%")}

\* homeassistant.util.temperature.convert
convert_temp(value, from_unit, to_unit) ==
    IF from_unit = to_unit THEN value
    ELSE IF from_unit = "C" THEN (value * 9) \div 5 + 32
    ELSE ((value - 32) * 5) \div 9

\* Magnus form of the dew point, rounded to 2 decimals (unit Fahrenheit):
\* its graph on the readings that occur
MagnusTable ==
       <<25, 45>> :> 664000
    @@ <<65, 45>> :> 4316000 @@ <<65, 50>> :> 4592000 @@ <<65, 60>> :> 5079000 @@ <<65, 97>> :> 6413000
    @@ <<72, 45>> :> 4952000 @@ <<72, 50>> :> 5237000 @@ <<72, 60>> :> 5737000 @@ <<72, 97>> :> 7110000
    @@ <<75, 45>> :> 5225000 @@ <<75, 50>> :> 5512000 @@ <<75, 60>> :> 6019000 @@ <<75, 97>> :> 7409000
    @@ <<77, 45>> :> 5406000 @@ <<77, 50>> :> 5696000 @@ <<77, 60>> :> 6207000 @@ <<77, 97>> :> 7608000
    @@ <<86, 45>> :> 6222000 @@ <<86, 50>> :> 6522000 @@ <<86, 60>> :> 7052000 @@ <<86, 97>> :> 8505000

compute_dew_point(temp, rh) == MagnusTable[<<temp, rh>>]

\* round(x, 2) of a fixed point value
Round2(x) == ((x + 500) \div 1000) * 1000

compute_simmer_index(temp, rh) == Round2(summer_simmer_index(temp, rh))

\* the comfort predicate of _calculate_state.calc
calc_is_comfortable(humidity, dew_point, simmer_index, pollen) ==
    /\ humidity <= config.humidity_max
    /\ config.simmer_index_min <= simmer_index
    /\ simmer_index <= config.simmer_index_max
    /\ dew_point <= config.dew_point_max
    /\ pollen <= config.pollen_max

calc(temp, humidity, pollen) ==
    LET dew_point == compute_dew_point(temp, humidity)
        simmer_index == compute_simmer_index(temp, humidity)
    IN  [is_comfortable |->
             calc_is_comfortable(humidity, dew_point, simmer_index, pollen),
         dew_point |-> dew_point,
         simmer_index |-> simmer_index]

\* realtime.pollen if realtime else None) or 0
outdoor_pollen(realtime) ==
    IF realtime # None /\ Val(realtime).pollen # None
    THEN Val(Val(realtime).pollen) ELSE 0

Max(a, b) == IF a >= b THEN a ELSE b

\* the loop of _calculate_state over the forecast
RECURSIVE scan_weather(_, _, _, _, _, _)
scan_weather(forecast, i, start_time, out_comfort, next_change_time, high_si) ==
    IF i > Len(forecast)
    THEN [next_change_time |-> next_change_time, high_si |-> high_si]
    ELSE LET entry == forecast[i]
             end_time == start_time + WindowHours
         IN  IF entry.date_time < start_time
             THEN scan_weather(forecast, i + 1, start_time, out_comfort,
                               next_change_time, high_si)
             ELSE LET c == calc(entry.temp, entry.humidity,
                                IF entry.pollen # None THEN Val(entry.pollen) ELSE 0)
                  IN  scan_weather(forecast, i + 1, start_time, out_comfort,
                          IF next_change_time = None /\ c.is_comfortable # out_comfort
                          THEN Some(entry.date_time) ELSE next_change_time,
                          IF entry.date_time <= end_time
                          THEN Max(high_si, c.simmer_index) ELSE high_si)

NoDevCalculated ==
    [open_windows |-> None, high_simmer_index |-> None, next_change_time |-> None]

NoDevAttrs ==
    [indoor_dew_point |-> None, indoor_simmer_index |-> None,
     outdoor_dew_point |-> None, outdoor_simmer_index |-> None]

complete(inputs) ==
    /\ inputs["indoor_temperature"] # None
    /\ inputs["indoor_humidity"] # None
    /\ inputs["outdoor_temperature"] # None
    /\ inputs["outdoor_humidity"] # None

\* _calculate_state: the result and the two dictionaries it updates
calculate_state(inputs, start_time) ==
    IF ~complete(inputs)
    THEN [result |-> FALSE, calculated |-> dev_calculated, attrs |-> dev_attrs]
    ELSE LET pollen == outdoor_pollen(inputs["realtime"])
             in == calc(Val(inputs["indoor_temperature"]),
                        Val(inputs["indoor_humidity"]), 0)
             out == calc(Val(inputs["outdoor_temperature"]),
                         Val(inputs["outdoor_humidity"]), pollen)
             forecast == IF inputs["forecast"] = None THEN <<>>
                         ELSE Val(inputs["forecast"])
             scan == scan_weather(forecast, 1, start_time, out.is_comfortable,
                                  None, out.simmer_index)
         IN  [result |-> TRUE,
              calculated |->
                  [open_windows |-> Some(out.is_comfortable),
                   high_simmer_index |-> Some(scan.high_si),
                   next_change_time |-> scan.next_change_time],
              attrs |->
                  [indoor_dew_point |-> Some(in.dew_point),
                   indoor_simmer_index |-> Some(in.simmer_index),
                   outdoor_dew_point |-> Some(out.dew_point),
                   outdoor_simmer_index |-> Some(out.simmer_index)]]

Count(seq, e) == Cardinality({i \in DOMAIN seq : seq[i] = e})

\* faulty variant: the first element of the list is skipped
notify_SkipsFirst(seq) ==
    [e \in Entities |-> IF seq = <<>> THEN 0 ELSE Count(Tail(seq), e)]

\* one async_schedule_update_ha_state call per element of self._entities
notify(seq) == [e \in Entities |-> Count(seq, e)]

NoneInvoked == [e \in Entities |-> 0]

\* _async_update_entities on the inputs as the calling step leaves them
async_update_entities(inputs) ==
    LET r == calculate_state(inputs, now)
    IN  /\ dev_calculated' = r.calculated
        /\ dev_attrs' = r.attrs
        /\ ret' = IF r.result THEN "True" ELSE "False"
        /\ invoked' = IF r.result THEN notify(entities) ELSE NoneInvoked
        /\ UNCHANGED <<produced, altered>>

\* a step that stores inputs and runs no recompute
no_update ==
    /\ ret' = "None"
    /\ invoked' = NoneInvoked
    /\ UNCHANGED <<produced, altered>>
    /\ UNCHANGED <<dev_calculated, dev_attrs>>

\* faulty variant: the recompute reads the outdoor temperature as it was
\* before the calling step stored its value
async_update_Torn(inputs) ==
    IF ~polling
    THEN async_update_entities(
             [inputs EXCEPT !["outdoor_temperature"] = dev_inputs["outdoor_temperature"]])
    ELSE no_update

\* _async_update
async_update(inputs) ==
    IF ~polling THEN async_update_entities(inputs)
    ELSE no_update

add_entity(entity) ==
    /\ instance = "ComfortAdvisorDevice"
    /\ Len(entities) < MaxEntities
    /\ entities' = Append(entities, entity)
    /\ subs' = [subs EXCEPT ![entity] = @ + 1]
    /\ call' = Call("add_entity", entity, None)
    /\ ret' = "None"
    /\ invoked' = NoneInvoked
    /\ UNCHANGED <<hassVars, sensorVars, providerVars, instance, config, now, rt_data, calcVars, polling, dev_inputs,
                   dev_calculated, dev_attrs, tasks, produced, altered>>

\* list.remove: the first occurrence
RECURSIVE list_remove(_, _)
list_remove(seq, e) ==
    IF seq = <<>> THEN seq
    ELSE IF Head(seq) = e THEN Tail(seq)
    ELSE <<Head(seq)>> \o list_remove(Tail(seq), e)

\* the callback add_entity returned, called once per registration
remove_entity(entity) ==
    /\ instance = "ComfortAdvisorDevice"
    /\ subs[entity] > 0
    /\ entities' = list_remove(entities, entity)
    /\ subs' = [subs EXCEPT ![entity] = @ - 1]
    /\ call' = Call("remove_entity", entity, None)
    /\ ret' = "None"
    /\ invoked' = NoneInvoked
    /\ UNCHANGED <<hassVars, sensorVars, providerVars, instance, config, now, rt_data, calcVars, polling, dev_inputs,
                   dev_calculated, dev_attrs, tasks, produced, altered>>

\* the realtime coordinator refreshes; the device's listener _realtime_updated
\* stores the sample and creates an _async_update task
realtime_updated(data) ==
    /\ rt_data' = Some(data)
    /\ IF instance = "ComfortAdvisorDevice"
       THEN /\ tasks < MaxTasks
            /\ dev_inputs' = [dev_inputs EXCEPT !["realtime"] = Some(data)]
            /\ tasks' = tasks + 1
            /\ no_update
            /\ call' = Call("_realtime_updated", "realtime", None)
            /\ UNCHANGED <<polling, entities, subs>>
       ELSE /\ rt_data # Some(data)
            /\ UNCHANGED <<devVars, obsVars>>
    /\ UNCHANGED <<hassVars, sensorVars, providerVars, instance, config, now, calcVars>>

forecast_updated(data) ==
    /\ instance = "ComfortAdvisorDevice"
    /\ tasks < MaxTasks
    /\ dev_inputs' = [dev_inputs EXCEPT !["forecast"] = Some(data)]
    /\ tasks' = tasks + 1
    /\ no_update
    /\ call' = Call("_forecast_updated", "forecast", None)
    /\ UNCHANGED <<hassVars, sensorVars, providerVars, instance, config, now, rt_data, calcVars, polling, entities, subs>>

\* a task created by _realtime_updated or _forecast_updated runs
run_update_task ==
    /\ instance = "ComfortAdvisorDevice"
    /\ tasks > 0
    /\ tasks' = tasks - 1
    /\ async_update(dev_inputs)
    /\ call' = Call("_async_update", "", None)
    /\ UNCHANGED <<hassVars, sensorVars, providerVars, instance, config, now, rt_data, calcVars, polling, dev_inputs,
                   entities, subs>>

\* the inputs after the assignments of _event_handler
event_inputs(entity_id, value) ==
    [k \in DevKeys |->
        IF \E i \in DOMAIN entity_id_map[entity_id] : entity_id_map[entity_id][i] = k
        THEN Some(value) ELSE dev_inputs[k]]

\* a state change without new state (the entity was removed) has no
\* `state` to read: state.state raises AttributeError; a state that is
\* unknown, unavailable, not a number or NaN makes the handler return
event_handler(entity_id, state) ==
    /\ instance = "ComfortAdvisorDevice"
    /\ call' = Call("_event_handler", entity_id, None)
    /\ IF state.kind = "missing"
       THEN /\ ret' = "AttributeError"
            /\ invoked' = NoneInvoked
            /\ UNCHANGED <<dev_inputs, dev_calculated, dev_attrs, produced, altered>>
       ELSE IF state.kind \in {"unknown", "unavailable", "text", "nan"}
       THEN /\ no_update
            /\ UNCHANGED dev_inputs
       ELSE LET value ==
                    IF state.device_class = "temperature" /\ state.unit # temp_unit
                    THEN convert_temp(state.value, state.unit, temp_unit)
                    ELSE state.value
                inputs == event_inputs(entity_id, value)
            IN  /\ dev_inputs' = inputs
                /\ async_update(inputs)
    /\ UNCHANGED <<hassVars, sensorVars, providerVars, instance, config, now, rt_data, calcVars, polling, entities,
                   tasks, subs>>

\* async_track_time_interval calls _async_update_entities when polling
poll_interval ==
    /\ instance = "ComfortAdvisorDevice"
    /\ polling
    /\ async_update_entities(dev_inputs)
    /\ call' = Call("_async_update_entities", "", None)
    /\ UNCHANGED <<hassVars, sensorVars, providerVars, instance, config, now, rt_data, calcVars, polling, dev_inputs,
                   entities, tasks, subs>>

\* time passes between calls
Tick ==
    /\ now < MaxNow
    /\ now' = now + 1
    /\ UNCHANGED <<hassVars, sensorVars, providerVars, instance, config, rt_data, calcVars, devVars, obsVars>>

Init ==
    /\ instance \in {"ComfortCalculator", "ComfortAdvisorDevice"}
    /\ config = DefaultConfig
    /\ now = 0
    /\ have_changes = FALSE
    /\ input = [k \in InputKeys |-> None]
    /\ calculated = NoCalculated
    /\ rt_data = None
    /\ polling \in IF instance = "ComfortAdvisorDevice" THEN BOOLEAN ELSE {FALSE}
    /\ dev_inputs = [k \in DevKeys |-> None]
    /\ dev_calculated = NoDevCalculated
    /\ dev_attrs = NoDevAttrs
    /\ entities = <<>>
    /\ tasks = 0
    /\ subs = NoneInvoked
    /\ invoked = NoneInvoked
    /\ call = Call("__init__", "", None)
    /\ ret = "None"
    /\ produced = 0
    /\ altered = FALSE
    /\ hass_data = {}
    /\ config_entries = <<>>
    /\ flow = None
    /\ handler = NoHandler
    /\ flow_result = NoResult
    /\ indoor = NoIndoor
    /\ compute_states = NoComputeStates
    /\ sensor_values = [sensor_type \in SensorTypes |-> None]
    /\ reads = [task \in EntityUpdates |-> <<>>]
    /\ evaluations = NoEvaluations
    /\ should_poll = FALSE
    /\ sensor_entities = {}
    /\ pending = {}
    /\ InitProviderVars

Next ==
    \/ \E key \in InputKeys : \E value \in {None} \cup {Some(v) : v \in InputValues(key)} :
           update_input(key, value)
    \/ refresh_state
    \/ \E data \in RealtimeSamples : realtime_updated(data)
    \/ \E data \in DevForecasts : forecast_updated(data)
    \/ \E entity_id \in DOMAIN entity_id_map :
           \E state \in SensorStates(entity_id) : event_handler(entity_id, state)
    \/ run_update_task
    \/ poll_interval
    \/ \E entity \in Entities : add_entity(entity)
    \/ \E entity \in Entities : remove_entity(entity)
    \/ Tick

Spec == Init /\ [][Next]_vars

\* ------------------------------------------------ the comfort predicate
\* is_comfortable and the predicate of _calculate_state.calc, applied to
\* values around the thresholds of two configurations

MetricConfig ==
    [dew_point_max    |-> 1550000,
     humidity_max     |-> 90,
     simmer_index_min |-> 2100000,
     simmer_index_max |-> 2950000,
     pollen_max       |-> 0]

ThresholdConfigs == {DefaultConfig, MetricConfig}

Around(x, step) == {x - step, x, x + step}

PredicateArgs ==
    [humidity     : Around(config.humidity_max, 1),
     dew_point    : Around(config.dew_point_max, 1000),
     simmer_index : Around(config.simmer_index_min, 1000)
                        \cup Around(config.simmer_index_max, 1000),
     pollen       : Around(config.pollen_max, 1)]

Bool(b) == IF b THEN "True" ELSE "False"

evaluate_is_comfortable(a) ==
    /\ instance = "predicate"
    /\ call' = Call("is_comfortable", "", Some(a))
    /\ ret' = Bool(is_comfortable(a.humidity, a.dew_point, a.simmer_index, a.pollen))
    /\ UNCHANGED <<hassVars, sensorVars, providerVars, instance, config, now, rt_data, calcVars, devVars, produced, altered>>

evaluate_calc(a) ==
    /\ instance = "predicate"
    /\ call' = Call("calc", "", Some(a))
    /\ ret' = Bool(calc_is_comfortable(a.humidity, a.dew_point, a.simmer_index,
                                       a.pollen))
    /\ UNCHANGED <<hassVars, sensorVars, providerVars, instance, config, now, rt_data, calcVars, devVars, produced, altered>>

InitPredicate ==
    /\ instance = "predicate"
    /\ config \in ThresholdConfigs
    /\ now = 0
    /\ have_changes = FALSE
    /\ input = [k \in InputKeys |-> None]
    /\ calculated = NoCalculated
    /\ rt_data = None
    /\ polling = FALSE
    /\ dev_inputs = [k \in DevKeys |-> None]
    /\ dev_calculated = NoDevCalculated
    /\ dev_attrs = NoDevAttrs
    /\ entities = <<>>
    /\ tasks = 0
    /\ subs = NoneInvoked
    /\ invoked = NoneInvoked
    /\ call = Call("__init__", "", None)
    /\ ret = "None"
    /\ produced = 0
    /\ altered = FALSE
    /\ hass_data = {}
    /\ config_entries = <<>>
    /\ flow = None
    /\ handler = NoHandler
    /\ flow_result = NoResult
    /\ indoor = NoIndoor
    /\ compute_states = NoComputeStates
    /\ sensor_values = [sensor_type \in SensorTypes |-> None]
    /\ reads = [task \in EntityUpdates |-> <<>>]
    /\ evaluations = NoEvaluations
    /\ should_poll = FALSE
    /\ sensor_entities = {}
    /\ pending = {}
    /\ InitProviderVars

NextPredicate ==
    \/ \E a \in PredicateArgs : evaluate_is_comfortable(a)
    \/ \E a \in PredicateArgs : evaluate_calc(a)

SpecPredicate == InitPredicate /\ [][NextPredicate]_vars

\* ------------------------------------- the calculator on provider data
\* ComfortCalculator driven with what sensors and providers can deliver:
\* forecast entries without a field, and a relative humidity of 0

CoreInputValues(key) ==
    CASE key = "forecast"            ->
            {ShortForecast, MalformedForecast, MalformedFirstForecast, DryForecast,
             ProviderDewPointForecast}
      [] key = "indoor_temperature"  -> {77}
      [] key = "indoor_humidity"     -> {45}
      [] key = "outdoor_temperature" -> {72, 75, 86}
      [] key = "outdoor_humidity"    -> {50, 60, 0}

InitCore ==
    /\ instance = "ComfortCalculator"
    /\ config = DefaultConfig
    /\ now = 0
    /\ have_changes = FALSE
    /\ input = [k \in InputKeys |-> None]
    /\ calculated = NoCalculated
    /\ rt_data = None
    /\ polling = FALSE
    /\ dev_inputs = [k \in DevKeys |-> None]
    /\ dev_calculated = NoDevCalculated
    /\ dev_attrs = NoDevAttrs
    /\ entities = <<>>
    /\ tasks = 0
    /\ subs = NoneInvoked
    /\ invoked = NoneInvoked
    /\ call = Call("__init__", "", None)
    /\ ret = "None"
    /\ produced = 0
    /\ altered = FALSE
    /\ hass_data = {}
    /\ config_entries = <<>>
    /\ flow = None
    /\ handler = NoHandler
    /\ flow_result = NoResult
    /\ indoor = NoIndoor
    /\ compute_states = NoComputeStates
    /\ sensor_values = [sensor_type \in SensorTypes |-> None]
    /\ reads = [task \in EntityUpdates |-> <<>>]
    /\ evaluations = NoEvaluations
    /\ should_poll = FALSE
    /\ sensor_entities = {}
    /\ pending = {}
    /\ InitProviderVars

NextCore ==
    \/ \E key \in InputKeys : \E value \in {Some(v) : v \in CoreInputValues(key)} :
           update_input(key, value)
    \/ refresh_state
    \/ Tick

SpecCore == InitCore /\ [][NextCore]_vars

\* ---- forecasts in any order
\* a hot hour, a fine hour and an hour past the window, in every order
OrderEntries == {Entry(1, 86, 50), Entry(2, 72, 50), Entry(MaxNow + WindowHours + 1, 86, 50)}

Orderings ==
    {forecast \in [1 .. Cardinality(OrderEntries) -> OrderEntries] :
         \A i, j \in DOMAIN forecast : forecast[i] = forecast[j] => i = j}

OrderInputValues(key) ==
    IF key = "forecast" THEN Orderings ELSE InputValues(key)

NextOrder ==
    \/ \E key \in InputKeys : \E value \in {Some(v) : v \in OrderInputValues(key)} :
           update_input(key, value)
    \/ refresh_state
    \/ Tick

SpecOrder == InitCore /\ [][NextOrder]_vars

\* ------------------------------------------ the listener and sensor units
InitUnits ==
    /\ instance = "ComfortAdvisorDevice"
    /\ config = DefaultConfig
    /\ now = 0
    /\ have_changes = FALSE
    /\ input = [k \in InputKeys |-> None]
    /\ calculated = NoCalculated
    /\ rt_data = None
    /\ polling \in BOOLEAN
    /\ dev_inputs = [k \in DevKeys |-> None]
    /\ dev_calculated = NoDevCalculated
    /\ dev_attrs = NoDevAttrs
    /\ entities = <<>>
    /\ tasks = 0
    /\ subs = NoneInvoked
    /\ invoked = NoneInvoked
    /\ call = Call("__init__", "", None)
    /\ ret = "None"
    /\ produced = 0
    /\ altered = FALSE
    /\ hass_data = {}
    /\ config_entries = <<>>
    /\ flow = None
    /\ handler = NoHandler
    /\ flow_result = NoResult
    /\ indoor = NoIndoor
    /\ compute_states = NoComputeStates
    /\ sensor_values = [sensor_type \in SensorTypes |-> None]
    /\ reads = [task \in EntityUpdates |-> <<>>]
    /\ evaluations = NoEvaluations
    /\ should_poll = FALSE
    /\ sensor_entities = {}
    /\ pending = {}
    /\ InitProviderVars

\* the new state of a state change that carries no reading: none, unknown,
\* unavailable, a text that float() rejects, NaN
InvalidStates ==
    {SensorState(kind, 0, "temperature", "F") :
        kind \in {"missing", "unknown", "unavailable", "text", "nan"}}

NextUnits ==
    \/ \E entity_id \in DOMAIN entity_id_map :
           \E state \in UnitSensorStates(entity_id) : event_handler(entity_id, state)
    \/ \E entity_id \in DOMAIN entity_id_map :
           \E state \in InvalidStates : event_handler(entity_id, state)
    \/ poll_interval
    \/ \E entity \in Entities : add_entity(entity)
    \/ \E entity \in Entities : remove_entity(entity)

SpecUnits == InitUnits /\ [][NextUnits]_vars

\* ---------------------------------------------------- the formula library
\* the unit-aware formulas applied to sample readings; the result is kept,
\* fixed point, with the arguments in call.value

FormulaTemps == {65, 72, 75, 77, 86}
FormulaHums == {45, 50, 60, 97}
CelsiusTemps == {20, 25, 30}
CelsiusHums == {50, 100}

evaluate(op, unit, temp, rh, result) ==
    /\ instance = "formulas"
    /\ call' = Call(op, unit, Some([temp |-> temp, rh |-> rh, result |-> result]))
    /\ ret' = "float"
    /\ UNCHANGED <<hassVars, sensorVars, providerVars, instance, config, now, rt_data, calcVars, devVars, produced, altered>>

evaluate_calc_dew_point(temp, rh, unit) ==
    evaluate("calc_dew_point", unit, temp, rh, calc_dew_point_in(temp, rh, unit))

evaluate_calc_heat_index(temp, rh) ==
    evaluate("calc_heat_index", "F", temp, rh, calc_heat_index(temp, rh))

evaluate_calc_absolute_humidity(temp, rh) ==
    evaluate("calc_absolute_humidity", "F", temp, rh, calc_absolute_humidity(temp, rh))

evaluate_calc_frost_point(temp, rh) ==
    evaluate("calc_frost_point", "F", temp, rh, calc_frost_point(temp, rh))

evaluate_calc_simmer_index(temp, rh) ==
    evaluate("calc_simmer_index", "F", temp, rh, calc_simmer_index(temp, rh))

evaluate_calc_moist_air_enthalpy(temp, rh) ==
    evaluate("calc_moist_air_enthalpy", "F", temp, rh,
             calc_moist_air_enthalpy(temp, rh))

InitFormulas ==
    /\ instance = "formulas"
    /\ config = DefaultConfig
    /\ now = 0
    /\ have_changes = FALSE
    /\ input = [k \in InputKeys |-> None]
    /\ calculated = NoCalculated
    /\ rt_data = None
    /\ polling = FALSE
    /\ dev_inputs = [k \in DevKeys |-> None]
    /\ dev_calculated = NoDevCalculated
    /\ dev_attrs = NoDevAttrs
    /\ entities = <<>>
    /\ tasks = 0
    /\ subs = NoneInvoked
    /\ invoked = NoneInvoked
    /\ call = Call("__init__", "", None)
    /\ ret = "None"
    /\ produced = 0
    /\ altered = FALSE
    /\ hass_data = {}
    /\ config_entries = <<>>
    /\ flow = None
    /\ handler = NoHandler
    /\ flow_result = NoResult
    /\ indoor = NoIndoor
    /\ compute_states = NoComputeStates
    /\ sensor_values = [sensor_type \in SensorTypes |-> None]
    /\ reads = [task \in EntityUpdates |-> <<>>]
    /\ evaluations = NoEvaluations
    /\ should_poll = FALSE
    /\ sensor_entities = {}
    /\ pending = {}
    /\ InitProviderVars

NextFormulas ==
    \/ \E temp \in FormulaTemps : \E rh \in FormulaHums \cup {100} :
           evaluate_calc_dew_point(temp, rh, "F")
    \/ \E temp \in CelsiusTemps : \E rh \in CelsiusHums :
           evaluate_calc_dew_point(temp, rh, "C")
    \/ \E temp \in FormulaTemps : \E rh \in FormulaHums :
           evaluate_calc_heat_index(temp, rh)
    \/ \E temp \in FormulaTemps : \E rh \in FormulaHums :
           evaluate_calc_absolute_humidity(temp, rh)
    \/ \E temp \in FormulaTemps : \E rh \in FormulaHums :
           evaluate_calc_frost_point(temp, rh)
    \/ \E temp \in FormulaTemps : \E rh \in FormulaHums :
           evaluate_calc_simmer_index(temp, rh)
    \/ \E temp \in FormulaTemps : \E rh \in FormulaHums :
           evaluate_calc_moist_air_enthalpy(temp, rh)

SpecFormulas == InitFormulas /\ [][NextFormulas]_vars

\* ------------------------------------------ the device's forecast window
NextWindow ==
    \/ \E data \in RealtimeSamples : realtime_updated(data)
    \/ \E data \in {DevShortForecast, DevLateForecast} : forecast_updated(data)
    \/ \E entity_id \in DOMAIN entity_id_map :
           \E state \in SensorStates(entity_id) : event_handler(entity_id, state)
    \/ run_update_task
    \/ Tick

SpecWindow == InitUnits /\ [][NextWindow]_vars

\* ------------------------------------------- config flow, setup and unload
\* the entity registry: the unique_id of each registered sensor entity;
\* sensor.yaml_temperature has a state and no registry entry
ent_reg ==
       "sensor.indoor_temperature" :> 11 @@ "sensor.indoor_humidity" :> 12
    @@ "sensor.outdoor_temperature" :> 21 @@ "sensor.outdoor_humidity" :> 22
    @@ "sensor.attic_temperature" :> 31

\* what async_step_inputs can receive: the sensors of the four inputs, in the
\* order indoor temperature, indoor humidity, outdoor temperature, outdoor
\* humidity
RegisteredSensors ==
    <<"sensor.indoor_temperature", "sensor.indoor_humidity",
      "sensor.outdoor_temperature", "sensor.outdoor_humidity">>
UnregisteredSensors ==
    <<"sensor.yaml_temperature", "sensor.indoor_humidity",
      "sensor.outdoor_temperature", "sensor.outdoor_humidity">>
SensorChoices ==
    {RegisteredSensors,
     <<"sensor.attic_temperature", "sensor.indoor_humidity",
       "sensor.outdoor_temperature", "sensor.outdoor_humidity">>,
     UnregisteredSensors}

\* md5(str(values)).hexdigest(): a digest, the same for the same list
md5(values) ==
    (values[1] * 343 + values[2] * 49 + values[3] * 7 + values[4]) % 65521

\* ent_reg.async_get returns None for an entity that is not registered, and
\* .unique_id of None raises AttributeError
create_unique_id_raises(user_input) ==
    \E i \in 1..4 : user_input[i] \notin DOMAIN ent_reg

create_unique_id(user_input) ==
    md5([i \in 1..4 |-> ent_reg[user_input[i]]])

\* faulty variant: no entry is ever taken to have the unique id
unique_id_configured_Never(unique_id) == FALSE

\* _abort_if_unique_id_configured: an entry of the domain has the unique id
unique_id_configured(unique_id) ==
    \E i \in DOMAIN config_entries : config_entries[i].unique_id = Some(unique_id)

ConfigEntry(unique_id, sensors, source) ==
    [unique_id |-> unique_id, sensors |-> sensors, source |-> source,
     state |-> "not_loaded", options |-> {}]

\* async_step_inputs with the sensors chosen
async_step_inputs(user_input) ==
    /\ instance = "hass"
    /\ flow' = Some(user_input)
    /\ call' = Call("async_step_inputs", "", None)
    /\ ret' = "form"
    /\ UNCHANGED <<hass_data, config_entries>>
    /\ UNCHANGED flowVars
    /\ UNCHANGED <<instance, config, now, rt_data, calcVars, devVars, produced, altered,
                 sensorVars, providerVars>>

\* async_step_settings with the name entered: the last step of the flow
async_step_settings ==
    /\ instance = "hass"
    /\ flow # None
    /\ call' = Call("async_step_settings", "", flow)
    /\ IF create_unique_id_raises(Val(flow))
       THEN /\ ret' = "AttributeError"
            /\ UNCHANGED <<config_entries, flow>>
       ELSE LET unique_id == create_unique_id(Val(flow))
            IN  IF unique_id_configured(unique_id)
                THEN /\ ret' = "already_configured"
                     /\ flow' = None
                     /\ UNCHANGED config_entries
                ELSE /\ Len(config_entries) < MaxConfigEntries
                     /\ config_entries' =
                            Append(config_entries,
                                   ConfigEntry(Some(unique_id), Val(flow), "user"))
                     /\ flow' = None
                     /\ ret' = "create_entry"
    /\ UNCHANGED hass_data
    /\ UNCHANGED flowVars
    /\ UNCHANGED <<instance, config, now, rt_data, calcVars, devVars, produced, altered,
                 sensorVars, providerVars>>

\* hass.config_entries.async_add of an entry that has no unique id
async_add(sensors) ==
    /\ instance = "hass"
    /\ Len(config_entries) < MaxConfigEntries
    /\ config_entries' = Append(config_entries, ConfigEntry(None, sensors, "import"))
    /\ call' = Call("async_add", "", None)
    /\ ret' = "None"
    /\ UNCHANGED <<hass_data, flow>>
    /\ UNCHANGED flowVars
    /\ UNCHANGED <<instance, config, now, rt_data, calcVars, devVars, produced, altered,
                 sensorVars, providerVars>>

\* async_setup_entry of entry number entry_id; valid: DATA_SCHEMA accepts the
\* configuration, provider: provider_from_config returned one, refreshed: the
\* first refresh of both services succeeded (else ConfigEntryNotReady)
async_setup_entry(entry_id, valid, provider, refreshed) ==
    /\ instance = "hass"
    /\ config_entries[entry_id].state = "not_loaded"
    /\ call' = Call("async_setup_entry", "", Some(entry_id))
    /\ LET entry == config_entries[entry_id]
           unique_id == IF entry.unique_id = None THEN Some(entry_id)
                        ELSE entry.unique_id
       IN  IF valid /\ provider /\ ~refreshed
           THEN /\ hass_data' = {entry_id}
                /\ config_entries' =
                       [config_entries EXCEPT ![entry_id].unique_id = unique_id]
                /\ ret' = "ConfigEntryNotReady"
           ELSE IF valid /\ provider
           THEN /\ hass_data' = {entry_id}
                /\ config_entries' =
                       [config_entries EXCEPT
                           ![entry_id] = [entry EXCEPT !.unique_id = unique_id,
                                                       !.state = "loaded"]]
                /\ ret' = "True"
           ELSE /\ hass_data' = {}
                /\ config_entries' =
                       [config_entries EXCEPT ![entry_id].unique_id = unique_id]
                /\ ret' = "False"
    /\ UNCHANGED flow
    /\ UNCHANGED flowVars
    /\ UNCHANGED <<instance, config, now, rt_data, calcVars, devVars, produced, altered,
                 sensorVars, providerVars>>

\* async_unload_entry: unloaded is the result of async_unload_platforms
async_unload_entry(entry_id, unloaded) ==
    /\ instance = "hass"
    /\ config_entries[entry_id].state = "loaded"
    /\ call' = Call("async_unload_entry", "", Some(entry_id))
    /\ IF unloaded
       THEN /\ config_entries' =
                   [config_entries EXCEPT ![entry_id].state = "not_loaded"]
            /\ ret' = "True"
       ELSE /\ UNCHANGED config_entries
            /\ ret' = "False"
    /\ UNCHANGED <<hass_data, flow>>
    /\ UNCHANGED flowVars
    /\ UNCHANGED <<instance, config, now, rt_data, calcVars, devVars, produced, altered,
                 sensorVars, providerVars>>

InitEntries ==
    /\ instance = "hass"
    /\ config = DefaultConfig
    /\ now = 0
    /\ have_changes = FALSE
    /\ input = [k \in InputKeys |-> None]
    /\ calculated = NoCalculated
    /\ rt_data = None
    /\ polling = FALSE
    /\ dev_inputs = [k \in DevKeys |-> None]
    /\ dev_calculated = NoDevCalculated
    /\ dev_attrs = NoDevAttrs
    /\ entities = <<>>
    /\ tasks = 0
    /\ subs = NoneInvoked
    /\ invoked = NoneInvoked
    /\ call = Call("__init__", "", None)
    /\ ret = "None"
    /\ produced = 0
    /\ altered = FALSE
    /\ hass_data = {}
    /\ config_entries = <<>>
    /\ flow = None
    /\ handler = NoHandler
    /\ flow_result = NoResult
    /\ indoor = NoIndoor
    /\ compute_states = NoComputeStates
    /\ sensor_values = [sensor_type \in SensorTypes |-> None]
    /\ reads = [task \in EntityUpdates |-> <<>>]
    /\ evaluations = NoEvaluations
    /\ should_poll = FALSE
    /\ sensor_entities = {}
    /\ pending = {}
    /\ InitProviderVars

NextEntries ==
    \/ \E user_input \in SensorChoices : async_step_inputs(user_input)
    \/ async_step_settings
    \/ \E sensors \in SensorChoices : async_add(sensors)
    \/ \E entry_id \in DOMAIN config_entries : \E valid, provider, refreshed \in BOOLEAN :
           async_setup_entry(entry_id, valid, provider, refreshed)
    \/ \E entry_id \in DOMAIN config_entries : \E unloaded \in BOOLEAN :
           async_unload_entry(entry_id, unloaded)

SpecEntries == InitEntries /\ [][NextEntries]_vars

\* ------------------------------------------------------- the config flow
\* the provider types offered by the step 'user'
PROVIDER_TYPES == {"fake", "nws", "tomorrowio"}

\* module.SCHEMA of a provider: fake has no field, the others an api key
weather_schema_of(provider_name) ==
    IF provider_name = "fake" THEN {} ELSE {"api_key"}

\* what a caller can submit to a step
ProviderInput(provider_type) == {<<"provider_type", provider_type>>}
WeatherInput == {<<"api_key", "key">>}
InputsInput(sensors) ==
    {<<"in_temp_sensor", sensors[1]>>, <<"in_humidity_sensor", sensors[2]>>,
     <<"out_temp_sensor", sensors[3]>>, <<"out_humidity_sensor", sensors[4]>>}
ComfortInput ==
    {<<"simmer_index_min", 70>>, <<"simmer_index_max", 85>>,
     <<"dewpoint_max", 60>>, <<"humidity_max", 95>>, <<"pollen_max", 2>>}
SettingsInput(name) ==
    {<<"name", name>>, <<"enabled_sensors", "all">>, <<"poll", FALSE>>,
     <<"poll_interval", 30>>}
\* the complete input: every value the steps ask for, in one dict
CompleteInput ==
    ProviderInput("fake") \cup InputsInput(RegisteredSensors) \cup ComfortInput
        \cup SettingsInput("test_comfort_advisor")
UserInputs ==
    {{}, ProviderInput("fake"), ProviderInput("nws"), WeatherInput,
     InputsInput(RegisteredSensors), InputsInput(UnregisteredSensors),
     ComfortInput, SettingsInput("test_comfort_advisor"), CompleteInput}

SensorsOf(data) ==
    <<Get(data, "in_temp_sensor"), Get(data, "in_humidity_sensor"),
      Get(data, "out_temp_sensor"), Get(data, "out_humidity_sensor")>>

\* a step returns the handler as it leaves it and the FlowResult
Step(self, flow_res) == [self |-> self, result |-> flow_res]

step_settings(self, user_input) ==
    IF "name" \in Keys(user_input)
    THEN LET updated == [self EXCEPT !.config = Updated(self.config, user_input)]
         IN  IF create_unique_id_raises(SensorsOf(updated.config))
             THEN Step(updated, FlowResult("AttributeError", "", "", "", {}))
             ELSE IF unique_id_configured(create_unique_id(SensorsOf(updated.config)))
             THEN Step(updated, async_abort("already_configured"))
             ELSE Step(updated,
                       async_create_entry(Get(user_input, "name"), updated.config))
    ELSE Step(self, async_show_form("settings", ""))

step_comfort(self, user_input) ==
    IF "simmer_index_min" \in Keys(user_input)
    THEN step_settings([self EXCEPT !.config = Updated(self.config, user_input)], {})
    ELSE Step(self, async_show_form("comfort", ""))

step_inputs(self, user_input) ==
    IF "in_temp_sensor" \in Keys(user_input)
    THEN step_comfort([self EXCEPT !.config = Updated(self.config, user_input)], {})
    ELSE Step(self, async_show_form("inputs", ""))

\* what `await provider.realtime()` does in the test call: it returns the
\* weather, or raises WeatherProviderError(error_key)
Realtime(type, error_key) == [type |-> type, error_key |-> error_key]

RealtimeResults ==
    {Realtime("WeatherData", ""), Realtime("WeatherProviderError", "api_error"),
     Realtime("WeatherProviderError", "invalid_api_key")}

\* the errors dict of _async_test_weather_provider: its "base" entry, "" for {}
_async_test_weather_provider(realtime) ==
    IF realtime.type = "WeatherProviderError" THEN realtime.error_key ELSE ""

\* faulty variant: the outcome of the test call is not looked at
step_weather_NoGate(self, user_input, loads, realtime) ==
    IF self.weather_schema = None /\ ~loads
    THEN Step(self, async_abort("load_provider"))
    ELSE LET schema == weather_schema_of(Val(self.provider_name))
             built == [self EXCEPT !.weather_schema = Some(schema)]
             tested == Updated(user_input, ProviderInput(Val(self.provider_name)))
         IN  IF user_input # {} \/ schema = {}
             THEN step_inputs(
                      [built EXCEPT !.config =
                          Updated(built.config, {<<"weather_provider", tested>>})],
                      {})
             ELSE Step(built, async_show_form("weather", ""))

\* loads: load_module finds the provider module; realtime: what the test
\* call of provider.realtime() does
step_weather(self, user_input, loads, realtime) ==
    IF self.weather_schema = None /\ ~loads
    THEN Step(self, async_abort("load_provider"))
    ELSE LET schema == weather_schema_of(Val(self.provider_name))
             built == [self EXCEPT !.weather_schema = Some(schema)]
             tested == Updated(user_input, ProviderInput(Val(self.provider_name)))
         IN  IF user_input # {} \/ schema = {}
             THEN IF _async_test_weather_provider(realtime) = ""
                  THEN step_inputs(
                           [built EXCEPT !.config =
                               Updated(built.config, {<<"weather_provider", tested>>})],
                           {})
                  ELSE Step(built, async_show_form("weather",
                                                   _async_test_weather_provider(realtime)))
             ELSE Step(built, async_show_form("weather", ""))

step_user(self, user_input, loads, realtime) ==
    IF "provider_type" \in Keys(user_input)
    THEN step_weather([self EXCEPT !.provider_name =
                                       Some(Get(user_input, "provider_type"))],
                      {}, loads, realtime)
    ELSE IF Cardinality(PROVIDER_TYPES) = 1
    THEN step_weather([self EXCEPT !.provider_name =
                                       Some(CHOOSE t \in PROVIDER_TYPES : TRUE)],
                      {}, loads, realtime)
    ELSE Step(self, async_show_form("user", ""))

\* the flow manager after a step: a form keeps the flow at the form's step, an
\* exception keeps it where it was, abort and create_entry end it; a created
\* entry is added with the unique id the step set
Handled(cur_step, step) ==
    /\ flow_result' = step.result
    /\ ret' = step.result.type
    /\ handler' =
           IF step.result.type = "form"
           THEN [step.self EXCEPT !.cur_step = step.result.step_id]
           ELSE IF step.result.type = "AttributeError"
           THEN [step.self EXCEPT !.cur_step = cur_step]
           ELSE NoHandler
    /\ IF step.result.type = "create_entry"
       THEN /\ Len(config_entries) < MaxConfigEntries
            /\ config_entries' =
                   Append(config_entries,
                          ConfigEntry(Some(create_unique_id(SensorsOf(step.result.data))),
                                      SensorsOf(step.result.data), "user"))
       ELSE UNCHANGED config_entries

\* hass.config_entries.flow.async_init(DOMAIN, context={"source": "user"})
flow_async_init ==
    /\ instance = "hass"
    /\ call' = Call("flow.async_init", "user", None)
    /\ \E loads \in BOOLEAN, realtime \in RealtimeResults :
           Handled("user", step_user(NoHandler, {}, loads, realtime))
    /\ UNCHANGED <<hass_data, flow>>
    /\ UNCHANGED <<instance, config, now, rt_data, calcVars, devVars, produced, altered,
                 sensorVars, providerVars>>

\* hass.config_entries.flow.async_configure(flow_id, user_input): the step
\* the flow is at receives the input
flow_async_configure(user_input, loads, realtime) ==
    /\ instance = "hass"
    /\ handler.cur_step # ""
    /\ call' = Call("flow.async_configure", handler.cur_step, Some(user_input))
    /\ Handled(handler.cur_step,
               CASE handler.cur_step = "user" ->
                        step_user(handler, user_input, loads, realtime)
                 [] handler.cur_step = "weather" ->
                        step_weather(handler, user_input, loads, realtime)
                 [] handler.cur_step = "inputs" -> step_inputs(handler, user_input)
                 [] handler.cur_step = "comfort" -> step_comfort(handler, user_input)
                 [] handler.cur_step = "settings" -> step_settings(handler, user_input))
    /\ UNCHANGED <<hass_data, flow>>
    /\ UNCHANGED <<instance, config, now, rt_data, calcVars, devVars, produced, altered,
                 sensorVars, providerVars>>

\* hass.config_entries.options.async_init(entry_id): the flow class defines no
\* async_get_options_flow, so the one of ConfigFlow raises UnknownHandler
options_async_init(entry_id) ==
    /\ instance = "hass"
    /\ call' = Call("options.async_init", "", Some(entry_id))
    /\ flow_result' = FlowResult("UnknownHandler", "", "", "", {})
    /\ ret' = "UnknownHandler"
    /\ UNCHANGED <<hass_data, config_entries, flow, handler>>
    /\ UNCHANGED <<instance, config, now, rt_data, calcVars, devVars, produced, altered,
                 sensorVars, providerVars>>

\* ComfortAdvisorOptionsFlow(config_entry).async_step_init(user_input): the
\* body is a docstring, it returns None
async_step_init(entry_id, user_input) ==
    /\ instance = "hass"
    /\ call' = Call("async_step_init", "", Some(<<entry_id, user_input>>))
    /\ flow_result' = NoResult
    /\ ret' = "None"
    /\ UNCHANGED <<hass_data, config_entries, flow, handler>>
    /\ UNCHANGED <<instance, config, now, rt_data, calcVars, devVars, produced, altered,
                 sensorVars, providerVars>>

NextFlow ==
    \/ flow_async_init
    \/ \E user_input \in UserInputs, loads \in BOOLEAN, realtime \in RealtimeResults :
           flow_async_configure(user_input, loads, realtime)
    \/ async_add(RegisteredSensors)
    \/ \E entry_id \in DOMAIN config_entries : options_async_init(entry_id)
    \/ \E entry_id \in DOMAIN config_entries :
           \E user_input \in {{}, SettingsInput("New name")} :
               async_step_init(entry_id, user_input)

SpecFlow == InitEntries /\ [][NextFlow]_vars

\* ------------------------------------------- the sensor device (sensor.py)
\* the evaluations are told apart up to "more than once"
Counted(n) == IF n < 2 THEN n + 1 ELSE n

\* the states of the two indoor sensors that reach the listeners
IndoorStates(attr) ==
    IF attr = "temperature"
    THEN {SensorState("number", 25, "temperature", "C"),
          SensorState("number", 77, "temperature", "F"),
          SensorState("number", 15, "temperature", "C"),
          SensorState("unknown", 0, "temperature", "C")}
    ELSE {SensorState("number", 45, "humidity", "%"),
          SensorState("number", 0, "humidity", "%"),
          SensorState("unavailable", 0, "humidity", "%")}

_is_valid_state(state) == state.kind = "number"

\* util.temperature.fahrenheit_to_celsius: exact on the readings that occur
fahrenheit_to_celsius(temp) == ((temp - 32) * 5) \div 9

\* the sensor's own dew point formula, rounded to 2 decimals (Celsius):
\* its graph on the readings that occur
SensorDewPointTable ==
    <<15, 45>> :> 318000 @@ <<25, 45>> :> 1226000

\* VP is 0 for a humidity of 0 and math.log(VP / 0.61078) raises ValueError
dew_point_raises(temperature, humidity) == humidity = 0

dew_point(temperature, humidity) == SensorDewPointTable[<<temperature, humidity>>]

\* the sensor's frost point from the temperature and the dew point it
\* awaited, rounded to 2 decimals: its graph on the values that occur
SensorFrostPointTable ==
       <<15, 318000>> :> 123000 @@ <<15, 1226000>> :> 1031000
    @@ <<25, 318000>> :> -27000 @@ <<25, 1226000>> :> 881000

frost_point(temperature, dewpoint) == SensorFrostPointTable[<<temperature, dewpoint>>]

\* x / d rounded to the nearest integer, for d > 0
RoundDiv(x, d) == (2 * x + d) \div (2 * d)

\* what both simmer indexes convert back to Celsius: 10^6 times the value
\* in Fahrenheit less 32, with the temperature in tenths of a degree
\* Fahrenheit (f10 = 18 * celsius + 320)
Formula6(f10, rh) ==
    198000 * f10 - 1089 * (100 - rh) * (f10 - 580) - 56830000 - 32000000

\* the device's simmer_index: below 70 F the index is the temperature; the
\* result is rounded to 2 decimals in Celsius (kept in 10^-5)
simmer_index(temperature, humidity) ==
    LET f10 == 18 * temperature + 320
        si6 == IF f10 < 700 THEN f10 * 100000 - 32000000
               ELSE Formula6(f10, humidity)
    IN  RoundDiv(si6, 18000) * 1000

\* calc_simmer_index for a temperature in Celsius: converted to Fahrenheit,
\* summer_simmer_index, converted back; neither clamped nor rounded (the
\* value to the nearest 10^-5)
calc_simmer_index_celsius(temp, rh) ==
    RoundDiv(Formula6(18 * temp + 320, rh), 18)

Awaits_Cyclic ==
    {<<"frost_risk", "absolute_humidity">>, <<"frost_risk", "frost_point">>,
     <<"frost_point", "dew_point">>, <<"thermal_perception", "dew_point">>,
     <<"simmer_zone", "simmer_index">>, <<"dew_point", "frost_point">>}

\* the wrapped methods that the method of a sensor type awaits, itself under
\* its lock: all of the source's
Awaits ==
    {<<"frost_risk", "absolute_humidity">>, <<"frost_risk", "frost_point">>,
     <<"frost_point", "dew_point">>, <<"thermal_perception", "dew_point">>,
     <<"simmer_zone", "simmer_index">>}

\* the sensor type whose method the formula of a sensor type awaits (the
\* modelled types await one at most)
Awaited(sensor_type) ==
    LET awaited == {pair[2] : pair \in {p \in Awaits : p[1] = sensor_type}}
    IN  IF awaited = {} THEN None ELSE Some(CHOOSE other \in awaited : TRUE)

FormulaRaises(sensor_type) ==
    sensor_type = "dew_point"
        /\ dew_point_raises(Val(indoor.temperature), Val(indoor.humidity))

\* the body of the method, after what it awaited has returned arg
Formula(sensor_type, arg) ==
    CASE sensor_type = "dew_point" ->
            dew_point(Val(indoor.temperature), Val(indoor.humidity))
      [] sensor_type = "frost_point" ->
            frost_point(Val(indoor.temperature), Val(arg))
      [] sensor_type = "simmer_index" ->
            simmer_index(Val(indoor.temperature), Val(indoor.humidity))

Frame(sensor_type, stage) == [sensor_type |-> sensor_type, stage |-> stage, arg |-> None]

Top(stack) == stack[Len(stack)]

Popped(stack) == SubSeq(stack, 1, Len(stack) - 1)

\* a wrapped call returns value: to the method that awaited it, or to the
\* entity, whose native value it becomes
Returned(stack, value) ==
    IF Len(stack) = 1 THEN <<>>
    ELSE LET caller == stack[Len(stack) - 1]
         IN  Append(SubSeq(stack, 1, Len(stack) - 2), [caller EXCEPT !.arg = Some(value)])

\* the locks a stack of wrapped calls holds
Held(stack) == {stack[i].sensor_type : i \in {j \in DOMAIN stack : stack[j].stage = "compute"}}

sensorStep(op, key, value, result) ==
    /\ call' = Call(op, key, value)
    /\ ret' = result
    /\ UNCHANGED <<hassVars, instance, config, now, rt_data, calcVars, devVars, produced,
                   altered, providerVars>>

device_async_update_MarksOnce(readings) ==
    IF readings.temperature # None /\ readings.humidity # None
    THEN /\ compute_states' = [sensor_type \in SensorTypes |->
                                  [compute_states[sensor_type] EXCEPT !.needs_update =
                                       @ \/ sensor_values[sensor_type] = None]]
         /\ evaluations' = NoEvaluations
         /\ pending' = IF should_poll THEN pending ELSE pending \cup sensor_entities
    ELSE UNCHANGED <<compute_states, evaluations, pending>>

\* ComfortAdvisorDevice.async_update: with both readings, every sensor type
\* needs an update and, unless the device polls, async_update_sensors
\* schedules a forced update of every entity added
device_async_update(readings) ==
    IF readings.temperature # None /\ readings.humidity # None
    THEN /\ compute_states' = [sensor_type \in SensorTypes |->
                                  [compute_states[sensor_type] EXCEPT !.needs_update = TRUE]]
         /\ evaluations' = NoEvaluations
         /\ pending' = IF should_poll THEN pending ELSE pending \cup sensor_entities
    ELSE UNCHANGED <<compute_states, evaluations, pending>>

\* ComfortAdvisorDevice._new_temperature_state
_new_temperature_state(state) ==
    /\ instance = "sensor.ComfortAdvisorDevice"
    /\ IF _is_valid_state(state)
       THEN LET temp == IF state.unit = "F" THEN fahrenheit_to_celsius(state.value)
                        ELSE state.value
                readings == [indoor EXCEPT !.temperature = Some(temp)]
            IN  /\ indoor' = readings
                /\ device_async_update(readings)
       ELSE UNCHANGED <<indoor, compute_states, evaluations, pending>>
    /\ UNCHANGED <<sensor_values, reads, should_poll, sensor_entities>>
    /\ sensorStep("_new_temperature_state", "", Some(state), "None")

\* ComfortAdvisorDevice._new_humidity_state
_new_humidity_state(state) ==
    /\ instance = "sensor.ComfortAdvisorDevice"
    /\ IF _is_valid_state(state)
       THEN LET readings == [indoor EXCEPT !.humidity = Some(state.value)]
            IN  /\ indoor' = readings
                /\ device_async_update(readings)
       ELSE UNCHANGED <<indoor, compute_states, evaluations, pending>>
    /\ UNCHANGED <<sensor_values, reads, should_poll, sensor_entities>>
    /\ sensorStep("_new_humidity_state", "", Some(state), "None")

\* SensorComfortAdvisor.async_added_to_hass: the entity joins self.sensors
\* and schedules a forced update if its sensor type needs one
async_added_to_hass(sensor_type) ==
    /\ instance = "sensor.ComfortAdvisorDevice"
    /\ sensor_type \notin sensor_entities
    /\ sensor_entities' = sensor_entities \cup {sensor_type}
    /\ pending' = IF compute_states[sensor_type].needs_update
                  THEN pending \cup {sensor_type} ELSE pending
    /\ UNCHANGED <<indoor, compute_states, sensor_values, reads, evaluations, should_poll>>
    /\ sensorStep("async_added_to_hass", sensor_type, None, "None")

\* ComfortAdvisorDevice.async_update_sensors as the callback of
\* async_track_time_interval, which a polling device registers: the time of
\* the tick is its force_refresh argument, so every entity added gets a
\* forced update
async_update_sensors ==
    /\ instance = "sensor.ComfortAdvisorDevice"
    /\ should_poll
    /\ pending' = pending \cup sensor_entities
    /\ UNCHANGED <<indoor, compute_states, sensor_values, reads, evaluations, should_poll,
                   sensor_entities>>
    /\ sensorStep("async_update_sensors", "", None, "None")

\* SensorComfortAdvisor.async_update, the scheduled update of an entity: it
\* awaits the device's method, whose wrapper awaits the lock
sensor_async_update(task, sensor_type) ==
    /\ instance = "sensor.ComfortAdvisorDevice"
    /\ sensor_type \in pending
    /\ reads[task] = <<>>
    /\ pending' = pending \ {sensor_type}
    /\ reads' = [reads EXCEPT ![task] = <<Frame(sensor_type, "acquire")>>]
    /\ UNCHANGED <<indoor, compute_states, sensor_values, evaluations, should_poll, sensor_entities>>
    /\ sensorStep("async_update", sensor_type, Some(task), "await")

\* compute_once_lock, from the lock to the test of needs_update: a type that
\* needs no update returns the attribute, which no one has set before the
\* first computation
wrapped_acquire(task) ==
    /\ instance = "sensor.ComfortAdvisorDevice"
    /\ reads[task] # <<>>
    /\ LET frame == Top(reads[task])
           sensor_type == frame.sensor_type
       IN  /\ frame.stage = "acquire"
           /\ ~compute_states[sensor_type].locked
           /\ IF compute_states[sensor_type].needs_update
              THEN /\ compute_states' = [compute_states EXCEPT ![sensor_type].locked = TRUE]
                   /\ reads' = [reads EXCEPT ![task] =
                                   Append(Popped(@), [frame EXCEPT !.stage = "compute"])]
                   /\ sensorStep("wrapped", sensor_type, Some(task), "await")
              ELSE IF sensor_values[sensor_type] = None
              THEN /\ compute_states' = [sensor_type2 \in SensorTypes |->
                          IF sensor_type2 \in Held(reads[task])
                          THEN [compute_states[sensor_type2] EXCEPT !.locked = FALSE]
                          ELSE compute_states[sensor_type2]]
                   /\ reads' = [reads EXCEPT ![task] = <<>>]
                   /\ sensorStep("wrapped", sensor_type, Some(task), "AttributeError")
              ELSE /\ reads' = [reads EXCEPT ![task] =
                                   Returned(@, Val(sensor_values[sensor_type]))]
                   /\ sensorStep("wrapped", sensor_type, Some(task), "cached")
                   /\ UNCHANGED compute_states
    /\ UNCHANGED <<indoor, sensor_values, evaluations, should_poll, sensor_entities, pending>>

\* compute_once_lock, the computation under the lock: the method awaits the
\* method it depends on, then evaluates its formula; the value is stored
\* and needs_update cleared, unless the formula raises, which leaves both
\* and releases every lock the task holds
wrapped_compute(task) ==
    /\ instance = "sensor.ComfortAdvisorDevice"
    /\ reads[task] # <<>>
    /\ LET frame == Top(reads[task])
           sensor_type == frame.sensor_type
       IN  /\ frame.stage = "compute"
           /\ IF Awaited(sensor_type) # None /\ frame.arg = None
              THEN /\ reads' = [reads EXCEPT ![task] =
                                   Append(@, Frame(Val(Awaited(sensor_type)), "acquire"))]
                   /\ sensorStep("func", sensor_type, Some(task), "await")
                   /\ UNCHANGED <<compute_states, sensor_values, evaluations>>
              ELSE IF FormulaRaises(sensor_type)
              THEN /\ compute_states' = [sensor_type2 \in SensorTypes |->
                          IF sensor_type2 \in Held(reads[task])
                          THEN [compute_states[sensor_type2] EXCEPT !.locked = FALSE]
                          ELSE compute_states[sensor_type2]]
                   /\ reads' = [reads EXCEPT ![task] = <<>>]
                   /\ evaluations' = [evaluations EXCEPT ![sensor_type].raised = Counted(@)]
                   /\ sensorStep("func", sensor_type, Some(task), "ValueError")
                   /\ UNCHANGED sensor_values
              ELSE LET value == Formula(sensor_type, frame.arg)
                   IN  /\ sensor_values' = [sensor_values EXCEPT ![sensor_type] = Some(value)]
                       /\ compute_states' = [compute_states EXCEPT ![sensor_type] =
                              [needs_update |-> FALSE, locked |-> FALSE]]
                       /\ reads' = [reads EXCEPT ![task] = Returned(@, value)]
                       /\ evaluations' = [evaluations EXCEPT ![sensor_type].returned = Counted(@)]
                       /\ sensorStep("func", sensor_type, Some(task), "computed")
    /\ UNCHANGED <<indoor, should_poll, sensor_entities, pending>>

InitSensor ==
    /\ instance = "sensor.ComfortAdvisorDevice"
    /\ config = DefaultConfig
    /\ now = 0
    /\ have_changes = FALSE
    /\ input = [k \in InputKeys |-> None]
    /\ calculated = NoCalculated
    /\ rt_data = None
    /\ polling = FALSE
    /\ dev_inputs = [k \in DevKeys |-> None]
    /\ dev_calculated = NoDevCalculated
    /\ dev_attrs = NoDevAttrs
    /\ entities = <<>>
    /\ tasks = 0
    /\ subs = NoneInvoked
    /\ invoked = NoneInvoked
    /\ call = Call("__init__", "", None)
    /\ ret = "None"
    /\ produced = 0
    /\ altered = FALSE
    /\ hass_data = {}
    /\ config_entries = <<>>
    /\ flow = None
    /\ handler = NoHandler
    /\ flow_result = NoResult
    /\ indoor = NoIndoor
    /\ compute_states = NoComputeStates
    /\ sensor_values = [sensor_type \in SensorTypes |-> None]
    /\ reads = [task \in EntityUpdates |-> <<>>]
    /\ evaluations = NoEvaluations
    /\ should_poll \in BOOLEAN
    /\ sensor_entities = {}
    /\ pending = {}
    /\ InitProviderVars

\* a read in progress: a wrapped call that has not returned
Running == \E task \in EntityUpdates : reads[task] # <<>>

NextSensor ==
    \/ \E state \in IndoorStates("temperature") : _new_temperature_state(state)
    \/ \E state \in IndoorStates("humidity") : _new_humidity_state(state)
    \/ \E sensor_type \in SensorTypes : async_added_to_hass(sensor_type)
    \/ async_update_sensors
    \/ \E task \in EntityUpdates : \E sensor_type \in SensorTypes :
           sensor_async_update(task, sensor_type)
    \/ \E task \in EntityUpdates : wrapped_acquire(task)
    \/ \E task \in EntityUpdates : wrapped_compute(task)

SpecSensor == InitSensor /\ [][NextSensor]_vars

\* the event loop: a task runs until it suspends, and no await of a wrapped
\* call suspends (asyncio.Lock.acquire returns at once when the lock is
\* free, and a lock is held only while a task runs), so nothing else runs
\* between the start of an entity update and its return
NextLoop ==
    \/ ~Running /\ \E state \in IndoorStates("temperature") : _new_temperature_state(state)
    \/ ~Running /\ \E state \in IndoorStates("humidity") : _new_humidity_state(state)
    \/ ~Running /\ \E sensor_type \in SensorTypes : async_added_to_hass(sensor_type)
    \/ ~Running /\ async_update_sensors
    \/ ~Running /\ \E sensor_type \in SensorTypes : sensor_async_update(1, sensor_type)
    \/ \E task \in EntityUpdates : wrapped_acquire(task)
    \/ \E task \in EntityUpdates : wrapped_compute(task)

SpecLoop == InitSensor /\ [][NextLoop]_vars

\* a task that can run is run: the steps of the wrapped calls are taken
SpecLoopLive ==
    SpecLoop /\ WF_vars(\E task \in EntityUpdates : wrapped_acquire(task) \/ wrapped_compute(task))

\* ------------------------------------------- the weather provider (provider.py)
\* retries = 5
Retries == 5

\* the coroutines of a provider that a wrapper can wrap
Wrapped == {"fetch_realtime", "fetch_forecast"}

\* WeatherData | None of fetch_realtime, Sequence[WeatherData] | None of
\* fetch_forecast
FetchResults == {"WeatherData", "Sequence[WeatherData]", "None"}

\* ProviderException(error_key, can_retry), and an exception of another class
Exception(type, error_key, can_retry) ==
    [type |-> type, error_key |-> error_key, can_retry |-> can_retry]

Exceptions ==
    {Exception("ProviderException", "cannot_connect", TRUE),
     Exception("ProviderException", "rate_limited", TRUE),
     Exception("ProviderException", "invalid_api_key", FALSE),
     Exception("ProviderException", "unknown", FALSE),
     Exception("TimeoutError", "", FALSE)}

providerStep(op, key, value, result) ==
    /\ instance = "provider"
    /\ call' = Call(op, key, value)
    /\ ret' = result
    /\ UNCHANGED <<hassVars, sensorVars, config, instance, now, rt_data, calcVars, devVars,
                   produced, altered>>

\* async_retry, wrapper: the call, up to the first `await wrapped(...)`
wrapper_SixRetries(wrapped) ==
    /\ retry.pc \in {"idle", "returned", "raised"}
    /\ retry' = [pc |-> "try", wrapped |-> wrapped, retries |-> Retries + 1, attempts |-> 0,
                 outcome |-> None]
    /\ providerStep("wrapper", wrapped, None, "await")
    /\ UNCHANGED <<cacheVars, listenVars>>

wrapper(wrapped) ==
    /\ retry.pc \in {"idle", "returned", "raised"}
    /\ retry' = [pc |-> "try", wrapped |-> wrapped, retries |-> Retries, attempts |-> 0,
                 outcome |-> None]
    /\ providerStep("wrapper", wrapped, None, "await")
    /\ UNCHANGED <<cacheVars, listenVars>>

\* what an attempt returned, in the shape of what an attempt raises
Result(value) == [type |-> value, error_key |-> "", can_retry |-> FALSE]

\* `return await wrapped(*args, **kwargs)`: the attempt returns
wrapped_returns(value) ==
    /\ retry.pc = "try"
    /\ retry' = [retry EXCEPT !.pc = "returned", !.attempts = @ + 1,
                              !.outcome = Some(Result(value))]
    /\ providerStep("wrapped", retry.wrapped, Some(Result(value)), value)
    /\ UNCHANGED <<cacheVars, listenVars>>

\* the attempt raises: a ProviderException that can be retried, with retries
\* left, is followed by the pause; every other exception leaves the wrapper
wrapped_raises(exc) ==
    /\ retry.pc = "try"
    /\ IF exc.type = "ProviderException" /\ ~(~exc.can_retry \/ retry.retries = 0)
       THEN retry' = [retry EXCEPT !.pc = "sleep", !.attempts = @ + 1,
                                   !.retries = @ - 1, !.outcome = Some(exc)]
       ELSE retry' = [retry EXCEPT !.pc = "raised", !.attempts = @ + 1,
                                   !.outcome = Some(exc)]
    /\ providerStep("wrapped", retry.wrapped, Some(exc), exc.type)
    /\ UNCHANGED <<cacheVars, listenVars>>

\* `await asyncio.sleep(1)` returns and the loop tries again
sleep_returns ==
    /\ retry.pc = "sleep"
    /\ retry' = [retry EXCEPT !.pc = "try"]
    /\ providerStep("sleep", retry.wrapped, None, "None")
    /\ UNCHANGED <<cacheVars, listenVars>>

\* what the wrapped call and the pause do once awaited
Attempt ==
    \/ \E value \in FetchResults : wrapped_returns(value)
    \/ \E exc \in Exceptions : wrapped_raises(exc)
    \/ sleep_returns

InitRetry ==
    /\ instance = "provider"
    /\ config = DefaultConfig
    /\ now = 0
    /\ have_changes = FALSE
    /\ input = [k \in InputKeys |-> None]
    /\ calculated = NoCalculated
    /\ rt_data = None
    /\ polling = FALSE
    /\ dev_inputs = [k \in DevKeys |-> None]
    /\ dev_calculated = NoDevCalculated
    /\ dev_attrs = NoDevAttrs
    /\ entities = <<>>
    /\ tasks = 0
    /\ subs = NoneInvoked
    /\ invoked = NoneInvoked
    /\ call = Call("__init__", "", None)
    /\ ret = "None"
    /\ produced = 0
    /\ altered = FALSE
    /\ hass_data = {}
    /\ config_entries = <<>>
    /\ flow = None
    /\ handler = NoHandler
    /\ flow_result = NoResult
    /\ indoor = NoIndoor
    /\ compute_states = NoComputeStates
    /\ sensor_values = [sensor_type \in SensorTypes |-> None]
    /\ reads = [task \in EntityUpdates |-> <<>>]
    /\ evaluations = NoEvaluations
    /\ should_poll = FALSE
    /\ sensor_entities = {}
    /\ pending = {}
    /\ InitProviderVars

NextRetry ==
    \/ \E wrapped \in Wrapped : wrapper(wrapped)
    \/ \E value \in FetchResults : wrapped_returns(value)
    \/ \E exc \in Exceptions : wrapped_raises(exc)
    \/ sleep_returns

SpecRetry == InitRetry /\ [][NextRetry]_vars

\* the wrapped call terminates, and so does the pause
SpecRetryLive == SpecRetry /\ WF_vars(Attempt)

\* ---- async_create_weather_provider (provider.py)
\* PROVIDER_META: the provider types that have an entry
PROVIDER_META == {"nws", "tomorrowio"}

\* provider configurations: the provider type and its api key
ProviderConfigs ==
    {[provider |-> "nws", api_key |-> "a"],
     [provider |-> "tomorrowio", api_key |-> "a"],
     [provider |-> "tomorrowio", api_key |-> "b"],
     [provider |-> "accuweather", api_key |-> "a"]}

\* json.dumps(provider_config, sort_keys=True): the items in key order
hashable_key(provider_config) ==
    <<<<"api_key", provider_config.api_key>>, <<"provider", provider_config.provider>>>>

\* providers.get(hashable_key)
Cached(key) ==
    IF \E item \in providers : item[1] = key
    THEN Some((CHOOSE item \in providers : item[1] = key)[2])
    ELSE None

\* a call has returned `provider` for `provider_config`
CreateReturns(create, provider_config, provider) ==
    /\ creating' = [creating EXCEPT ![create] = [pc |-> "returned",
                                                  provider_config |-> Some(provider_config)]]
    /\ provided' = provided \cup {<<hashable_key(provider_config), provider>>}
    /\ call' = Call("async_create_weather_provider", create, Some(provider))
    /\ ret' = "Provider"

CreateRaises(create, provider_config, exc) ==
    /\ creating' = [creating EXCEPT ![create] = [pc |-> "raised",
                                                  provider_config |-> Some(provider_config)]]
    /\ call' = Call("async_create_weather_provider", create, None)
    /\ ret' = exc
    /\ UNCHANGED provided

cacheFrame ==
    /\ instance = "providers"
    /\ UNCHANGED <<hassVars, sensorVars, retry, listenVars, config, instance, now, rt_data,
                   calcVars, devVars, produced, altered>>

\* async_create_weather_provider, up to `await async_process_requirements`:
\* the cached provider is returned; an unknown provider type raises
async_create_weather_provider(create, provider_config) ==
    /\ creating[create].pc # "requirements"
    /\ cacheFrame
    /\ UNCHANGED <<providers, objects>>
    /\ IF Cached(hashable_key(provider_config)) # None
       THEN CreateReturns(create, provider_config, Val(Cached(hashable_key(provider_config))))
       ELSE IF provider_config.provider \notin PROVIDER_META
       THEN CreateRaises(create, provider_config, "ValueError")
       ELSE /\ creating' = [creating EXCEPT ![create] =
                               [pc |-> "requirements",
                                provider_config |-> Some(provider_config)]]
            /\ call' = Call("async_create_weather_provider", create, None)
            /\ ret' = "await"
            /\ UNCHANGED provided

\* async_process_requirements has returned or raised: the rest of the call.
\* `found`: the requirements were satisfied; `imported`: the provider's
\* module was imported.  factory(hass, provider_config) makes a new object,
\* which replaces whatever the dict holds under the key.
async_process_requirements(create, found, imported) ==
    /\ creating[create].pc = "requirements"
    /\ cacheFrame
    /\ LET provider_config == Val(creating[create].provider_config)
           key == hashable_key(provider_config)
       IN  IF ~found
           THEN /\ CreateRaises(create, provider_config, "RequirementsNotFound")
                /\ UNCHANGED <<providers, objects>>
           ELSE IF ~imported
           THEN /\ CreateRaises(create, provider_config, "ImportError")
                /\ UNCHANGED <<providers, objects>>
           ELSE /\ objects' = objects + 1
                /\ providers' = {item \in providers : item[1] # key}
                                     \cup {<<key, objects + 1>>}
                /\ CreateReturns(create, provider_config, objects + 1)

InitProviders ==
    /\ instance = "providers"
    /\ config = DefaultConfig
    /\ now = 0
    /\ have_changes = FALSE
    /\ input = [k \in InputKeys |-> None]
    /\ calculated = NoCalculated
    /\ rt_data = None
    /\ polling = FALSE
    /\ dev_inputs = [k \in DevKeys |-> None]
    /\ dev_calculated = NoDevCalculated
    /\ dev_attrs = NoDevAttrs
    /\ entities = <<>>
    /\ tasks = 0
    /\ subs = NoneInvoked
    /\ invoked = NoneInvoked
    /\ call = Call("__init__", "", None)
    /\ ret = "None"
    /\ produced = 0
    /\ altered = FALSE
    /\ hass_data = {}
    /\ config_entries = <<>>
    /\ flow = None
    /\ handler = NoHandler
    /\ flow_result = NoResult
    /\ indoor = NoIndoor
    /\ compute_states = NoComputeStates
    /\ sensor_values = [sensor_type \in SensorTypes |-> None]
    /\ reads = [task \in EntityUpdates |-> <<>>]
    /\ evaluations = NoEvaluations
    /\ should_poll = FALSE
    /\ sensor_entities = {}
    /\ pending = {}
    /\ InitProviderVars

NextProviders ==
    \/ \E create \in Creates, provider_config \in ProviderConfigs :
           async_create_weather_provider(create, provider_config)
    \/ \E create \in Creates, found, imported \in BOOLEAN :
           async_process_requirements(create, found, imported)

SpecProviders == InitProviders /\ [][NextProviders]_vars

\* ---- the listeners of a provider's coordinators (provider.py)
Listeners == 1 .. MaxListeners

\* realtime_service and forecast_service
Services == {"realtime", "forecast"}

\* what a refresh of the coordinator does: update_method (fetch_realtime or
\* fetch_forecast) returns the weather, returns None, or raises
\* ProviderException, an UpdateFailed
RefreshResults == {"WeatherData", "None", "UpdateFailed"}

listenStep(op, value, result) ==
    /\ instance = "listeners"
    /\ served' = IF service'.data = None THEN served \cap service'.listeners
                 ELSE (served \cap service'.listeners) \cup notified'
    /\ call' = Call(op, service.name, value)
    /\ ret' = result
    /\ UNCHANGED <<hassVars, sensorVars, retry, cacheVars, config, instance, now, rt_data,
                   calcVars, devVars, produced, altered>>

\* faulty variant: no first refresh is started for a coordinator without data
async_add_listener_NoRefresh(update_callback) ==
    /\ update_callback \notin service.listeners
    /\ IF service.data = None
       THEN /\ service' = [service EXCEPT !.listeners = @ \cup {update_callback}]
            /\ notified' = {}
       ELSE /\ service' = [service EXCEPT !.listeners = @ \cup {update_callback}]
            /\ notified' = {update_callback}
    /\ listenStep("async_add_listener", Some(update_callback), "remover")

\* async_add_realtime_listener / async_add_forecast_listener: the callback
\* is added to the coordinator; without data a task running
\* async_config_entry_first_refresh is created, with data the callback is
\* called
async_add_listener(update_callback) ==
    /\ update_callback \notin service.listeners
    /\ IF service.data = None
       THEN /\ service.refreshing < MaxRefreshes
            /\ service' = [service EXCEPT !.listeners = @ \cup {update_callback},
                                          !.refreshing = @ + 1]
            /\ notified' = {}
       ELSE /\ service' = [service EXCEPT !.listeners = @ \cup {update_callback}]
            /\ notified' = {update_callback}
    /\ listenStep("async_add_listener", Some(update_callback), "remover")

async_add_realtime_listener(update_callback) ==
    service.name = "realtime" /\ async_add_listener(update_callback)

async_add_forecast_listener(update_callback) ==
    service.name = "forecast" /\ async_add_listener(update_callback)

\* the remover that async_add_listener returned
remover(update_callback) ==
    /\ update_callback \in service.listeners
    /\ service' = [service EXCEPT !.listeners = @ \ {update_callback}]
    /\ notified' = {}
    /\ listenStep("remover", Some(update_callback), "None")

\* the coordinator after a refresh: what update_method returned becomes the
\* data and the listeners are called; a failure keeps the data and calls the
\* listeners when the refresh before it had succeeded
Refreshed(coordinator, result) ==
    IF result = "UpdateFailed"
    THEN [coordinator EXCEPT !.last_update_success = FALSE]
    ELSE [coordinator EXCEPT !.last_update_success = TRUE,
                             !.data = IF result = "None" THEN None ELSE Some(result)]

Called(coordinator, result) ==
    IF result = "UpdateFailed" /\ ~coordinator.last_update_success
    THEN {}
    ELSE coordinator.listeners

\* a task created by async_add_listener runs to its end:
\* async_config_entry_first_refresh raises ConfigEntryNotReady on a failure
async_config_entry_first_refresh(result) ==
    /\ service.refreshing > 0
    /\ service' = [Refreshed(service, result) EXCEPT !.refreshing = @ - 1]
    /\ notified' = Called(service, result)
    /\ listenStep("async_config_entry_first_refresh", None,
                  IF result = "UpdateFailed" THEN "ConfigEntryNotReady" ELSE "None")

\* the refresh the coordinator schedules every update_interval while it has
\* listeners
scheduled_refresh(result) ==
    /\ service.listeners # {}
    /\ service' = Refreshed(service, result)
    /\ notified' = Called(service, result)
    /\ listenStep("scheduled_refresh", None, "None")

InitListeners ==
    /\ instance = "listeners"
    /\ config = DefaultConfig
    /\ now = 0
    /\ have_changes = FALSE
    /\ input = [k \in InputKeys |-> None]
    /\ calculated = NoCalculated
    /\ rt_data = None
    /\ polling = FALSE
    /\ dev_inputs = [k \in DevKeys |-> None]
    /\ dev_calculated = NoDevCalculated
    /\ dev_attrs = NoDevAttrs
    /\ entities = <<>>
    /\ tasks = 0
    /\ subs = NoneInvoked
    /\ invoked = NoneInvoked
    /\ call = Call("__init__", "", None)
    /\ ret = "None"
    /\ produced = 0
    /\ altered = FALSE
    /\ hass_data = {}
    /\ config_entries = <<>>
    /\ flow = None
    /\ handler = NoHandler
    /\ flow_result = NoResult
    /\ indoor = NoIndoor
    /\ compute_states = NoComputeStates
    /\ sensor_values = [sensor_type \in SensorTypes |-> None]
    /\ reads = [task \in EntityUpdates |-> <<>>]
    /\ evaluations = NoEvaluations
    /\ should_poll = FALSE
    /\ sensor_entities = {}
    /\ pending = {}
    /\ retry = NoRetry
    /\ providers = {}
    /\ creating = [create \in Creates |-> NoCreate]
    /\ objects = 0
    /\ provided = {}
    /\ service \in {DataUpdateCoordinator(name) : name \in Services}
    /\ notified = {}
    /\ served = {}

\* the steps of the coordinator's own tasks
Refreshes ==
    \/ \E result \in RefreshResults : async_config_entry_first_refresh(result)
    \/ \E result \in RefreshResults : scheduled_refresh(result)

NextListeners ==
    \/ \E update_callback \in Listeners : async_add_realtime_listener(update_callback)
    \/ \E update_callback \in Listeners : async_add_forecast_listener(update_callback)
    \/ \E update_callback \in Listeners : remover(update_callback)
    \/ \E result \in RefreshResults : async_config_entry_first_refresh(result)
    \/ \E result \in RefreshResults : scheduled_refresh(result)

SpecListeners == InitListeners /\ [][NextListeners]_vars

\* a task that was created runs, and the timer of the coordinator fires
SpecListenersLive ==
    /\ SpecListeners
    /\ WF_vars(\E result \in RefreshResults : async_config_entry_first_refresh(result))
    /\ WF_vars(\E result \in RefreshResults : scheduled_refresh(result))

\* ------------------------------------------------------------- properties
Calculator == instance = "ComfortCalculator"
Device == instance = "ComfortAdvisorDevice"

\* a step of refresh_state that went on to compute a state
RefreshProduced == Calculator /\ have_changes /\ ~have_changes' /\ ret' = "True"

\* a step of the device that ran _calculate_state and got True
DeviceProduced == Device /\ now' = now /\ ret' = "True"

\* the value a no-op update_input leaves alone / the other one stores
UpdateKept == call'.value = None \/ call'.value = input[call'.key]

UpdateEffect ==
    IF UpdateKept
    THEN input' = input /\ have_changes' = have_changes
    ELSE input' = [input EXCEPT ![call'.key] = call'.value] /\ have_changes'

UpdateStep == Calculator /\ call'.op = "update_input" /\ now' = now /\ rt_data' = rt_data

C2_SecondRefreshFalse ==
    [][Calculator /\ call.op = "refresh_state" /\ call'.op = "refresh_state"
          /\ now' = now /\ rt_data' = rt_data
          => ret' = "False" /\ calculated' = calculated]_vars

C2_Witness ==
    /\ Calculator
    /\ call.op = "refresh_state"
    /\ ret = "False"
    /\ produced = 1

\* C3: a recompute returns True, and entities are notified, only when indoor
\* and outdoor temperature and humidity are all present; with indoor_humidity
\* missing no recompute returns True.
C3_ProducedOnlyWhenComplete ==
    /\ Calculator /\ ret = "True" =>
           \A k \in InputKeys \ {"forecast"} : input[k] # None
    /\ Device /\ (ret = "True" \/ \E e \in Entities : invoked[e] > 0) =>
           complete(dev_inputs)

C3_Witness ==
    /\ Calculator
    /\ call.op = "refresh_state"
    /\ ret = "False"
    /\ input["indoor_humidity"] = None
    /\ \A k \in InputKeys \ {"indoor_humidity"} : input[k] # None

\* no entry of the stored forecast lies in the window [now, now + 24h]
NoneInWindow(forecast, t) ==
    forecast = None \/
    \A i \in DOMAIN Val(forecast) :
        Val(forecast)[i].datetime < t \/ Val(forecast)[i].datetime > t + WindowHours

\* C4 as stated: with the dirty flag set and the four scalar inputs present
\* refresh_state produces a state, also without a usable forecast, and then
\* low/high simmer index and both transition times are None.
C4_ForecastOptional ==
    [][(/\ Calculator
        /\ call'.op = "refresh_state" /\ now' = now /\ rt_data' = rt_data
        /\ have_changes
        /\ \A k \in InputKeys \ {"forecast"} : input[k] # None)
          => /\ ret' = "True"
             /\ NoneInWindow(input["forecast"], now) =>
                    /\ calculated'.low_simmer_index = None
                    /\ calculated'.high_simmer_index = None
                    /\ calculated'.open_windows_at = None
                    /\ calculated'.close_windows_at = None]_vars

\* C5: after a burst of update_input calls at most one of the refresh_state
\* calls that follow produces a state.
C5_OneStatePerCycle == Calculator => produced <= 1

C5_Witness ==
    /\ Calculator
    /\ call.op = "refresh_state"
    /\ ret = "True"
    /\ produced = 1

\* C6 as stated: refresh_state produces a state only when update_input
\* altered a stored value since the last produced state, and a sensor event
\* that delivers the value already stored produces no state.
C6_OnlyAfterChange ==
    [][(RefreshProduced => altered)
       /\ (DeviceProduced /\ call'.op = "_event_handler"
               => dev_inputs' # dev_inputs)]_vars

\* C7: a recompute that returned True invokes every entity once per
\* registration that has not been removed; any other step invokes none.
C7_EachSubscriberOnce ==
    Device => \A e \in Entities :
        invoked[e] = IF ret = "True" THEN subs[e] ELSE 0

C7_Witness ==
    /\ Device
    /\ ret = "True"
    /\ subs["e1"] = 1 /\ invoked["e1"] = 1
    /\ subs["e2"] = 0 /\ invoked["e2"] = 0

\* C8: both comfort predicates are true exactly when humidity <= humidity_max,
\* simmer_index_min <= simmer_index <= simmer_index_max, dew_point <=
\* dew_point_max and pollen <= pollen_max.
C8_ComfortableIff ==
    call.op \in {"is_comfortable", "calc"} =>
        LET a == Val(call.value)
        IN  (ret = "True") <=>
                ~(\/ a.humidity > config.humidity_max
                  \/ a.simmer_index < config.simmer_index_min
                  \/ a.simmer_index > config.simmer_index_max
                  \/ a.dew_point > config.dew_point_max
                  \/ a.pollen > config.pollen_max)

C8_Witness ==
    /\ call.op = "is_comfortable"
    /\ ret = "True"
    /\ Val(call.value).humidity = config.humidity_max
    /\ Val(call.value).simmer_index = config.simmer_index_min
    /\ Val(call.value).dew_point = config.dew_point_max
    /\ Val(call.value).pollen = config.pollen_max

\* C9 as stated: the published comfort verdict is the predicate evaluated
\* with the pollen index of the latest realtime sample (0 without one).
C9_PollenFromRealtime ==
    [][/\ RefreshProduced =>
            calculated'.can_open_windows =
                Some(IF is_comfortable(Val(input["outdoor_humidity"]),
                           calc_dew_point(Val(input["outdoor_temperature"]),
                                          Val(input["outdoor_humidity"])),
                           calc_simmer_index(Val(input["outdoor_temperature"]),
                                             Val(input["outdoor_humidity"])),
                           outdoor_pollen(rt_data))
                     THEN "on" ELSE "off")
       /\ DeviceProduced =>
            dev_calculated'.open_windows =
                Some(calc(Val(dev_inputs'["outdoor_temperature"]),
                          Val(dev_inputs'["outdoor_humidity"]),
                          outdoor_pollen(rt_data)).is_comfortable)]_vars

\* the forecast refresh_state scans at time t
Scanned(t) == make_comfort_forecast(Val(input["forecast"]), t)

\* WindowHours entries, all in the window, flags alternating from uncomfortable
AlternatingInWindow(t) ==
    /\ Len(Val(input["forecast"])) = WindowHours
    /\ Len(Scanned(t)) = WindowHours
    /\ \A i \in 1..WindowHours : Scanned(t)[i].comfortable = (i % 2 = 0)

FirstIndex(f, from, flag) ==
    CHOOSE i \in from..Len(f) :
        /\ f[i].comfortable = flag
        /\ \A j \in from..(i - 1) : f[j].comfortable # flag

FirstComfortable(f) == FirstIndex(f, 1, TRUE)
NextUncomfortable(f) == FirstIndex(f, FirstComfortable(f) + 1, FALSE)

\* C10 as stated: on such a forecast open_windows_at is the time of the first
\* comfortable sample and close_windows_at the time of the first uncomfortable
\* sample after it, whatever comfortable_now is.
C10_AlternatingTransitions ==
    [][RefreshProduced /\ AlternatingInWindow(now) =>
          /\ calculated'.open_windows_at =
                 Some(Scanned(now)[FirstComfortable(Scanned(now))].datetime)
          /\ calculated'.close_windows_at =
                 Some(Scanned(now)[NextUncomfortable(Scanned(now))].datetime)]_vars

\* C10 amended: open_windows_at is the time of the first comfortable sample;
\* close_windows_at is the time of the first uncomfortable sample after it
\* when comfortable_now is false, and the time of the first sample of the
\* forecast (which is uncomfortable) when comfortable_now is true.
C10_AlternatingTransitionsByState ==
    [][RefreshProduced /\ AlternatingInWindow(now) =>
          /\ calculated'.open_windows_at =
                 Some(Scanned(now)[FirstComfortable(Scanned(now))].datetime)
          /\ calculated'.close_windows_at =
                 IF calculated'.can_open_windows = Some("on")
                 THEN Some(Scanned(now)[1].datetime)
                 ELSE Some(Scanned(now)[NextUncomfortable(Scanned(now))].datetime)]_vars

C10_Witness ==
    /\ Calculator
    /\ call.op = "refresh_state"
    /\ ret = "True"
    /\ input["forecast"] = Some(AlternatingForecast)
    /\ calculated.can_open_windows = Some("on")
    /\ calculated.open_windows_at = Some(1)
    /\ calculated.close_windows_at = Some(0)

\* the entries of the window that carry both a temperature and a humidity
ValidInWindow(forecast, t) ==
    SelectSeq(forecast,
        LAMBDA e : /\ e.datetime >= t /\ e.datetime <= t + WindowHours
                   /\ e.temperature # None /\ e.humidity # None)

ValidSsi(forecast, t) ==
    [i \in DOMAIN ValidInWindow(forecast, t) |->
        calc_simmer_index(Val(ValidInWindow(forecast, t)[i].temperature),
                          Val(ValidInWindow(forecast, t)[i].humidity))]

\* a refresh_state step that got past the dirty flag and the None check
RefreshAttempt ==
    /\ Calculator /\ call'.op = "refresh_state" /\ now' = now
    /\ have_changes /\ ~any_input_none

\* C11 as stated: a malformed entry of the window is skipped and the scan goes
\* on, so whenever the window holds valid entries a state is produced and its
\* low and high simmer index range over all of them.
C11_MalformedSkipped ==
    [][RefreshAttempt /\ ret' # "ValueError"
           /\ ValidInWindow(Val(input["forecast"]), now) # <<>>
       => /\ ret' = "True"
          /\ calculated'.low_simmer_index =
                 Some(SeqMin(ValidSsi(Val(input["forecast"]), now)))
          /\ calculated'.high_simmer_index =
                 Some(SeqMax(ValidSsi(Val(input["forecast"]), now)))]_vars

\* C12 as stated: refresh_state ends with a state or with None/False and
\* never raises, whatever accepted values were stored.
C12_NeverRaises == Calculator => ret \in {"None", "True", "False"}

\* C13: every recompute of the device that produced a state built it, and the
\* attributes, from the inputs as they are stored when the step ends: no
\* value of before a store of the same step is mixed in, with update tasks
\* pending or not.
C13_NoTearing ==
    [][DeviceProduced
       => /\ dev_calculated' = calculate_state(dev_inputs', now).calculated
          /\ dev_attrs' = calculate_state(dev_inputs', now).attrs]_vars

\* an event changed the outdoor temperature while an update task was pending
\* and the state was computed from the new reading
C13_Witness ==
    /\ Device
    /\ call.op = "_event_handler"
    /\ ret = "True"
    /\ tasks > 0
    /\ dev_inputs["outdoor_temperature"] = Some(86)
    /\ dev_calculated.open_windows = Some(FALSE)

\* the state of the stored inputs and the clock alone: thresholds, input
\* snapshot and now
PureState(thresholds, snapshot, t) ==
    LET forecast == make_comfort_forecast(Val(snapshot["forecast"]), t)
        out_temp == Val(snapshot["outdoor_temperature"])
        out_humidity == Val(snapshot["outdoor_humidity"])
        out_dewp == calc_dew_point(out_temp, out_humidity)
        out_ssi == calc_simmer_index(out_temp, out_humidity)
        comfortable_now ==
            /\ thresholds.simmer_index_min <= out_ssi
            /\ out_ssi <= thresholds.simmer_index_max
            /\ out_dewp <= thresholds.dew_point_max
            /\ out_humidity <= thresholds.humidity_max
            /\ 0 <= thresholds.pollen_max
        ssi_arr == [i \in DOMAIN forecast |-> forecast[i].ssi]
    IN  [can_open_windows |-> Some(IF comfortable_now THEN "on" ELSE "off"),
         low_simmer_index |-> Some(SeqMin(ssi_arr)),
         high_simmer_index |-> Some(SeqMax(ssi_arr)),
         open_windows_at |->
             IF comfortable_now THEN second_time(forecast, comfortable_now)
             ELSE first_time(forecast, comfortable_now),
         close_windows_at |->
             IF comfortable_now THEN first_time(forecast, comfortable_now)
             ELSE second_time(forecast, comfortable_now)]

\* C14: the state refresh_state produces is a function of the thresholds,
\* the stored inputs and now: comfortable_now and the trend fields do not
\* depend on the order in which the inputs arrived or on what was computed
\* before.
C14_PureFunction ==
    [][RefreshProduced =>
        LET pure == PureState(config, input, now)
        IN  \A f \in DOMAIN pure : calculated'[f] = pure[f]]_vars

\* a state computed "off" after one computed "on"
C14_Witness ==
    /\ Calculator
    /\ call.op = "refresh_state"
    /\ ret = "True"
    /\ produced = 1
    /\ input["outdoor_temperature"] = Some(86)
    /\ calculated.can_open_windows = Some("off")
    /\ calculated.close_windows_at # None

\* a step of refresh_state
RefreshStep ==
    Calculator /\ call'.op = "refresh_state" /\ now' = now /\ rt_data' = rt_data

\* C15 as stated: refresh_state with the dirty flag unset or an input missing
\* returns no state and changes neither the inputs, nor the calculated
\* outputs, nor the dirty flag; only a refresh_state that computes a state
\* clears the flag.
C15_NoOpRecompute ==
    [][RefreshStep
       => /\ (~have_changes \/ any_input_none
                 => /\ ret' # "True"
                    /\ UNCHANGED <<input, calculated, have_changes>>)
          /\ (have_changes /\ ~have_changes' => ret' = "True")]_vars

\* what the sensor of a temperature input reads, in the configured unit
ReadingsInUnit(key) ==
    {convert_temp(s.value, s.unit, temp_unit) :
        s \in {x \in UnitSensorStates("sensor." \o key) : x.kind = "number"}}

\* C16 as stated: every stored temperature is a reading of its sensor
\* expressed in the configured unit; an event whose unit differs was converted
\* before it was stored.
C16_StoredInConfiguredUnit ==
    Device => \A key \in {"indoor_temperature", "outdoor_temperature"} :
        dev_inputs[key] = None \/ Val(dev_inputs[key]) \in ReadingsInUnit(key)

\* the last call was a formula of the library
Evaluated == instance = "formulas" /\ ret = "float"

\* C17 as stated: calc_dew_point never returns more than the dry-bulb
\* temperature it was given, in either unit, up to a humidity of 100.
C17_DewPointAtMostTemp ==
    Evaluated /\ call.op = "calc_dew_point"
        => Val(call.value).result <= Val(call.value).temp * 100000

\* C18 as stated: every formula returns a value rounded to 2 decimals.
C18_RoundedTo2Decimals ==
    Evaluated => Val(call.value).result % 1000 = 0

\* C19 as stated: a successful async_setup_entry leaves the entry's id in
\* hass.data[DOMAIN] and the entry with a unique id; a successful
\* async_unload_entry leaves hass.data[DOMAIN] without the entry's id.
C19_SetupAddsUnloadRemoves ==
    [][/\ (call'.op = "async_setup_entry" /\ ret' = "True"
              => /\ Val(call'.value) \in hass_data'
                 /\ config_entries'[Val(call'.value)].unique_id # None)
       /\ (call'.op = "async_unload_entry" /\ ret' = "True"
              => Val(call'.value) \notin hass_data')]_vars

\* C20 as stated: no two config entries have the same four input sensors,
\* and the last step of a flow with the four sensors of an existing entry
\* aborts with already_configured and creates no entry.
C20_NoTwoEntries ==
    [][call'.op = "async_step_settings"
       => /\ ((\E i \in DOMAIN config_entries :
                   config_entries[i].sensors = Val(call'.value))
                 => ret' = "already_configured" /\ config_entries' = config_entries)
          /\ \A i, j \in DOMAIN config_entries' :
                 config_entries'[i].sensors = config_entries'[j].sensors => i = j]_vars

\* C20: when the flow reaches its last step with the four sensors of an entry
\* the flow created, it aborts with already_configured and creates no entry;
\* no two entries the flow created have the same four sensors.
C20_NoSecondEntry ==
    [][call'.op = "async_step_settings"
       => /\ ((\E i \in DOMAIN config_entries :
                   /\ config_entries[i].source = "user"
                   /\ config_entries[i].sensors = Val(call'.value))
                 => ret' = "already_configured" /\ config_entries' = config_entries)
          /\ \A i, j \in DOMAIN config_entries' :
                 /\ config_entries'[i].source = "user"
                 /\ config_entries'[j].source = "user"
                 /\ config_entries'[i].sensors = config_entries'[j].sensors
                 => i = j]_vars

\* the second run of the flow with the sensors of the first entry aborted
C20_Witness ==
    /\ instance = "hass"
    /\ call.op = "async_step_settings"
    /\ ret = "already_configured"
    /\ \E i \in DOMAIN config_entries :
           /\ config_entries[i].source = "user"
           /\ config_entries[i].sensors = Val(call.value)
    /\ \A i \in DOMAIN config_entries : config_entries[i].source = "user"

\* C21 as stated: a flow started by the user first shows the form of step
\* 'user', and submitting the complete input to that form ends the flow with
\* a created entry whose title is the name and whose data is that input.
C21_UserFormThenEntry ==
    [][/\ (call'.op = "flow.async_init"
              => flow_result' = async_show_form("user", ""))
       /\ ((call'.op = "flow.async_configure" /\ call'.key = "user"
               /\ Val(call'.value) = CompleteInput)
              => /\ flow_result' =
                       async_create_entry(Get(CompleteInput, "name"), CompleteInput)
                 /\ Len(config_entries') = Len(config_entries) + 1)]_vars

\* C22 as stated: an options flow started for an existing entry first shows
\* the form of step 'init', and submitting input to it finishes with a created
\* entry of empty title and leaves the input as the entry's options.
C22_OptionsFlow ==
    [][/\ (call'.op = "options.async_init"
              => flow_result' = async_show_form("init", ""))
       /\ (call'.op = "async_step_init" /\ Val(call'.value)[2] # {}
              => /\ flow_result' = async_create_entry("", Val(call'.value)[2])
                 /\ config_entries'[Val(call'.value)[1]].options
                        = Val(call'.value)[2])]_vars

\* the entry of the input forecast a comfort forecast entry was made from
SourceEntry(forecast, comfort_entry) ==
    CHOOSE i \in DOMAIN forecast : forecast[i].datetime = comfort_entry.datetime

\* C23 as stated: in every produced state, each entry of the scanned forecast
\* that carries the temperature and humidity of the outdoor reading has the
\* comfort flag comfortable_now, with or without a dew point of its own.
C23_SameFlagAsNow ==
    [][RefreshProduced
       => LET forecast == Val(input["forecast"])
              scanned == make_comfort_forecast(forecast, now)
          IN  \A i \in DOMAIN scanned :
                  LET entry == forecast[SourceEntry(forecast, scanned[i])]
                  IN  /\ entry.temperature = input["outdoor_temperature"]
                      /\ entry.humidity = input["outdoor_humidity"]
                      => (scanned[i].comfortable
                             <=> calculated'.can_open_windows = Some("on"))]_vars

InWindow(time, t) == time # None => t <= Val(time) /\ Val(time) <= t + WindowHours

\* C24 as stated: of a forecast in ascending order exactly the entries with
\* now <= t <= now + 24h are used: low and high simmer index range over the
\* valid entries of the window, and no transition time lies outside it.
C24_WindowOnly ==
    [][/\ RefreshProduced
          => /\ calculated'.low_simmer_index =
                    Some(SeqMin(ValidSsi(Val(input["forecast"]), now)))
             /\ calculated'.high_simmer_index =
                    Some(SeqMax(ValidSsi(Val(input["forecast"]), now)))
             /\ InWindow(calculated'.open_windows_at, now)
             /\ InWindow(calculated'.close_windows_at, now)
       /\ DeviceProduced
          => InWindow(dev_calculated'.next_change_time, now)]_vars

\* the time of the first entry from index from on whose flag is flag
TimeOfFirst(f, from, flag) ==
    IF \E i \in from..Len(f) : f[i].comfortable = flag
    THEN Some(f[FirstIndex(f, from, flag)].datetime) ELSE None

\* the two transitions in the order refresh_state found them
PublishedFirst(c) ==
    IF c.can_open_windows = Some("on") THEN c.close_windows_at ELSE c.open_windows_at
PublishedSecond(c) ==
    IF c.can_open_windows = Some("on") THEN c.open_windows_at ELSE c.close_windows_at

DevWindowSsi(forecast, t) ==
    {calc(forecast[i].temp, forecast[i].humidity, 0).simmer_index :
        i \in {j \in DOMAIN forecast :
                  /\ forecast[j].date_time >= t
                  /\ forecast[j].date_time <= t + WindowHours}}

\* C27 as stated: after a recompute that used a non-empty in-window forecast,
\* low_simmer_index is the minimum and high_simmer_index the maximum of the
\* simmer indexes of the in-window entries, so low <= high.
C27_MinMaxOfWindow ==
    [][/\ RefreshProduced
          => /\ calculated'.low_simmer_index =
                    Some(SeqMin(ValidSsi(Val(input["forecast"]), now)))
             /\ calculated'.high_simmer_index =
                    Some(SeqMax(ValidSsi(Val(input["forecast"]), now)))
             /\ Val(calculated'.low_simmer_index)
                    <= Val(calculated'.high_simmer_index)
       /\ (/\ DeviceProduced
           /\ dev_inputs'["forecast"] # None
           /\ DevWindowSsi(Val(dev_inputs'["forecast"]), now) # {})
          => \A si \in DevWindowSsi(Val(dev_inputs'["forecast"]), now) :
                 /\ si <= Val(dev_calculated'.high_simmer_index)
                 /\ Val(dev_calculated'.high_simmer_index)
                        \in DevWindowSsi(Val(dev_inputs'["forecast"]), now)]_vars

\* every output field of state c has the value refresh_state computes from
\* thresholds, snapshot and time t
WrittenFrom(c, thresholds, snapshot, t) ==
    /\ \A f \in DOMAIN PureState(thresholds, snapshot, t) :
           c[f] = PureState(thresholds, snapshot, t)[f]
    /\ c.simmer_index =
           Some(calc_simmer_index(Val(snapshot["outdoor_temperature"]),
                                  Val(snapshot["outdoor_humidity"])))

\* C28: a step either leaves every field of the calculated state as it was,
\* or it is a refresh_state that wrote every output field (verdict, simmer
\* index, low and high, both transition times) from the inputs stored at
\* that step; so no state mixes fields of two recomputes, also when
\* refresh_state returns False or raises.
C28_Wholesale ==
    [][Calculator
       => \/ calculated' = calculated
          \/ /\ call'.op = "refresh_state"
             /\ ret' = "True"
             /\ WrittenFrom(calculated', config, input, now)]_vars

\* a refresh_state that raised after an earlier one had produced a state
C28_Witness ==
    /\ Calculator /\ call.op = "refresh_state" /\ ret = "ValueError"
    /\ calculated # NoCalculated
    /\ calculated.can_open_windows # None

\* C29: for every temperature and relative humidity, the simmer index the
\* comfort evaluator uses (calc_simmer_index) equals the one the device's
\* simmer_index sensor computes for the same inputs, below 70 degrees
\* Fahrenheit too.
C29_OneSimmerIndex ==
    (call.op = "func" /\ call.key = "simmer_index" /\ ret = "computed")
        => sensor_values["simmer_index"] =
               Some(calc_simmer_index_celsius(Val(indoor.temperature),
                                              Val(indoor.humidity)))

\* C30: after an input change has marked every sensor type as needing
\* update, the formula of each sensor type is evaluated at most once until
\* the next input change, whatever entities and dependent sensors read it,
\* one after the other or at once.
C30_EvaluatedAtMostOnce ==
    \A sensor_type \in SensorTypes :
        evaluations[sensor_type].returned + evaluations[sensor_type].raised <= 1

\* what holds of the evaluations that return a value: at most one for each
\* sensor type and input change, under every interleaving of the updates
ReturnedAtMostOnce ==
    \A sensor_type \in SensorTypes : evaluations[sensor_type].returned <= 1

\* a lock is held by exactly the wrapped calls that compute under it
LocksHeld ==
    \A sensor_type \in SensorTypes :
        compute_states[sensor_type].locked
            <=> \E task \in EntityUpdates : sensor_type \in Held(reads[task])

\* C31: a call wrapped by async_retry terminates when the wrapped call does.
\* It returns the result of the first attempt that succeeds; an exception
\* that cannot be retried is re-raised at once; a ProviderException that can
\* be retried is retried at most 5 times, so there are at most 6 attempts and
\* the exception of the sixth is re-raised.
RetryOutcome ==
    /\ retry.attempts <= Retries + 1
    /\ retry.pc \in {"try", "sleep"} => retry.attempts + retry.retries = Retries
    /\ retry.pc = "returned" => Val(retry.outcome).type \in FetchResults
    /\ retry.pc = "raised" =>
           LET exc == Val(retry.outcome)
           IN  \/ exc.type # "ProviderException"
               \/ ~exc.can_retry
               \/ retry.attempts = Retries + 1
    /\ retry.pc = "sleep" =>
           /\ Val(retry.outcome).type = "ProviderException"
           /\ Val(retry.outcome).can_retry

C31_RetryTerminates ==
    /\ []RetryOutcome
    /\ (retry.pc = "try") ~> (retry.pc \in {"returned", "raised"})

\* the sixth attempt has failed and its exception is re-raised
C31_Witness ==
    /\ retry.pc = "raised"
    /\ retry.attempts = Retries + 1
    /\ Val(retry.outcome).can_retry

\* the formula of a sensor type applied to the present indoor readings
Current(sensor_type) ==
    LET temperature == Val(indoor.temperature)
        humidity == Val(indoor.humidity)
    IN  CASE sensor_type = "dew_point" -> dew_point(temperature, humidity)
          [] sensor_type = "frost_point" ->
                 frost_point(temperature, dew_point(temperature, humidity))
          [] sensor_type = "simmer_index" -> simmer_index(temperature, humidity)

C33_ReadsComputedValue ==
    [][call'.op = "wrapped" =>
           \/ compute_states[call'.key].needs_update
           \/ sensor_values[call'.key] # None]_vars

\* what holds of a device that does not poll
NoPollReadsComputedValue == ~should_poll => ret # "AttributeError"

\* the sensor types whose locks a computation of the types in from can come
\* to hold, following Awaits for at most n calls
RECURSIVE AwaitedWithin(_, _)
AwaitedWithin(from, n) ==
    IF n = 0 THEN {}
    ELSE LET next == {pair[2] : pair \in {p \in Awaits : p[1] \in from}}
         IN  next \cup AwaitedWithin(next, n - 1)

\* no computation comes to await the lock it holds
LockOrderAcyclic ==
    \A pair \in Awaits : pair[1] \notin AwaitedWithin({pair[1]}, Cardinality(Awaits))

\* some read in progress can take its next step
NoDeadlock ==
    Running =>
        \E task \in EntityUpdates :
            /\ reads[task] # <<>>
            /\ \/ Top(reads[task]).stage = "compute"
               \/ ~compute_states[Top(reads[task]).sensor_type].locked

C35_InvalidStateIgnored ==
    [][\A entity_id \in DOMAIN entity_id_map : \A state \in InvalidStates :
           event_handler(entity_id, state)
               => /\ UNCHANGED <<dev_inputs, dev_calculated, dev_attrs, produced, tasks>>
                  /\ invoked' = NoneInvoked
                  /\ ret' = "None"]_vars

\* what holds of the new states that there are
PresentInvalidStateIgnored ==
    [][\A entity_id \in DOMAIN entity_id_map :
           \A state \in {x \in InvalidStates : x.kind # "missing"} :
               event_handler(entity_id, state)
                   => /\ UNCHANGED <<dev_inputs, dev_calculated, dev_attrs, produced, tasks>>
                      /\ invoked' = NoneInvoked
                      /\ ret' = "None"]_vars

\* C37: setting up one config entry, with or without success, removes no
\* other entry's state: a device registered in hass.data[DOMAIN] under
\* another entry's id is still registered after async_setup_entry.
C37_SetupKeepsOthers ==
    [][call'.op = "async_setup_entry"
           => \A entry_id \in hass_data :
                  entry_id # Val(call'.value) => entry_id \in hass_data']_vars

\* C36: at most one weather provider exists per provider configuration: any
\* two calls of async_create_weather_provider with equal configuration,
\* sequential or overlapping, return the same provider object, and the cache
\* holds at most one provider for a configuration.
C36_OneProviderPerConfig ==
    /\ \A first, second \in provided : first[1] = second[1] => first[2] = second[2]
    /\ \A first, second \in providers : first[1] = second[1] => first[2] = second[2]

\* the cache itself holds at most one provider for a configuration
CacheHoldsOnePerKey ==
    \A first, second \in providers : first[1] = second[1] => first[2] = second[2]

\* the entries of a forecast in ascending order of their time
Ascending(forecast) == SortSeq(forecast, LAMBDA first, second : first.datetime < second.datetime)

Entries(forecast) == {forecast[i] : i \in DOMAIN forecast}

\* C39: the result of the forecast scan depends only on the set of forecast
\* entries, not on their order: for any permutation, the in-window entries
\* used, the low and high simmer index and both transition timestamps are
\* those of the ascending order.
C39_OrderIndependent ==
    (Calculator /\ call.op = "refresh_state" /\ input["forecast"] # None)
        => LET permuted == make_comfort_forecast(Val(input["forecast"]), now)
               ascending == make_comfort_forecast(Ascending(Val(input["forecast"])), now)
           IN  /\ Entries(permuted) = Entries(ascending)
               /\ ret = "True"
                      => LET expected ==
                                 new_calculated(ascending,
                                                Val(input["outdoor_temperature"]),
                                                Val(input["outdoor_humidity"]))
                         IN  /\ calculated.low_simmer_index = expected.low_simmer_index
                             /\ calculated.high_simmer_index = expected.high_simmer_index
                             /\ calculated.open_windows_at = expected.open_windows_at
                             /\ calculated.close_windows_at = expected.close_windows_at

\* the same for a forecast that arrives in ascending order
AscendingIsItself ==
    (/\ Calculator /\ call.op = "refresh_state" /\ input["forecast"] # None
     /\ Val(input["forecast"]) = Ascending(Val(input["forecast"])))
        => /\ ret = "True"
              => calculated =
                     new_calculated(make_comfort_forecast(Val(input["forecast"]), now),
                                    Val(input["outdoor_temperature"]),
                                    Val(input["outdoor_humidity"]))

\* the provider configuration is stored in the flow's configuration
Stored(self, key) == key \in Keys(self.config)

\* the step taken is a call of the flow manager in which the test call of
\* provider.realtime() ran and did `realtime`
Tested(realtime) ==
    \/ \E loads \in BOOLEAN :
           /\ call' = Call("flow.async_init", "user", None)
           /\ Handled("user", step_user(NoHandler, {}, loads, realtime))
           /\ weather_schema_of(CHOOSE t \in PROVIDER_TYPES : TRUE) = {}
           /\ Cardinality(PROVIDER_TYPES) = 1
           /\ loads
    \/ \E user_input \in UserInputs, loads \in BOOLEAN :
           /\ flow_async_configure(user_input, loads, realtime)
           /\ \/ /\ handler.cur_step = "weather"
                 /\ handler.weather_schema # None \/ loads
                 /\ user_input # {} \/ weather_schema_of(Val(handler.provider_name)) = {}
              \/ /\ handler.cur_step = "user"
                 /\ "provider_type" \in Keys(user_input)
                 /\ handler.weather_schema # None \/ loads
                 /\ weather_schema_of(Get(user_input, "provider_type")) = {}

\* the steps reached hold what the steps before them store
StepOrder ==
    /\ handler.cur_step \in {"inputs", "comfort", "settings"}
           => Stored(handler, "weather_provider")
    /\ handler.cur_step \in {"comfort", "settings"} => Stored(handler, "in_temp_sensor")
    /\ handler.cur_step = "settings" => Stored(handler, "simmer_index_min")

\* the provider configuration is stored, and the flow moves on to the inputs
\* step, only in a step whose test call succeeded
StoredAfterTest ==
    (\/ Stored(handler', "weather_provider") /\ ~Stored(handler, "weather_provider")
     \/ handler'.cur_step = "inputs" /\ handler.cur_step \in {"", "user", "weather"})
        => /\ Tested(Realtime("WeatherData", ""))
           /\ \A realtime \in RealtimeResults :
                  realtime.type = "WeatherProviderError" => ~Tested(realtime)

\* a test call that fails shows the weather form with the error's key and
\* stores nothing
FailedTestShowsForm ==
    \A realtime \in RealtimeResults :
        (realtime.type = "WeatherProviderError" /\ Tested(realtime))
            => /\ flow_result' = async_show_form("weather", realtime.error_key)
               /\ handler'.cur_step = "weather"
               /\ handler'.config = handler.config
               /\ ~Stored(handler', "weather_provider")
               /\ config_entries' = config_entries

\* the flow creates an entry from the settings step alone, with what the
\* weather, inputs, comfort and settings steps stored
CreatedFromSettings ==
    (call'.op \in {"flow.async_init", "flow.async_configure"} /\ ret' = "create_entry")
        => /\ handler.cur_step = "settings"
           /\ \A key \in {"weather_provider", "in_temp_sensor", "simmer_index_min", "name"} :
                  key \in Keys(flow_result'.data)

FlowCreatedEntry ==
    /\ call.op = "flow.async_configure"
    /\ ret = "create_entry"
    /\ Stored([config |-> flow_result.data], "weather_provider")

RegisteredStep ==
    call'.op = "async_add_listener"
        => IF service.data # None
           THEN /\ notified' = {Val(call'.value)}
                /\ service'.data = service.data
                /\ service'.refreshing = service.refreshing
           ELSE /\ notified' = {}
                /\ service'.refreshing = service.refreshing + 1

\* a refresh that returns data calls every listener registered; a refresh
\* calls no other listener and registers or removes none
RefreshedStep ==
    call'.op \in {"async_config_entry_first_refresh", "scheduled_refresh"}
        => /\ (service'.last_update_success /\ service'.data # None)
                  => notified' = service.listeners
           /\ notified' \subseteq service.listeners
           /\ service'.listeners = service.listeners

\* no step calls a listener that is not registered
OnlyRegisteredCalled ==
    \A update_callback \in notified' : update_callback \in service'.listeners

CalledWithoutData ==
    /\ call.op \in {"async_config_entry_first_refresh", "scheduled_refresh"}
    /\ notified # {}
    /\ service.data = None

====
